---- MODULE Spec2Model ----
(***************************************************************************)
(* Users / Tasks two-way sync of the task-management API.                  *)
(*                                                                         *)
(* The User store and the Task store are two document collections.  Each   *)
(* request handler of controllers/userController.js and                    *)
(* controllers/taskController.js is one action that performs the whole     *)
(* handler: its validation, its store reads and every store write.         *)
(*                                                                         *)
(* Conventions                                                             *)
(*   - document ids are positive integers handed out by the store in       *)
(*     increasing order and never reused; the empty string '' of the       *)
(*     assignedUser field is modelled by Unassigned (0);                   *)
(*   - a missing / falsy request field (name, deadline) is "";             *)
(*   - an email is a sequence of one-character strings, so that the        *)
(*     RegExp built from it can be evaluated;                              *)
(*   - procs holds the requests in flight when a handler is followed one   *)
(*     store call at a time (the specifications StepSpec and RaceSpec);    *)
(*     under Spec every handler runs to its end in one step and procs      *)
(*     stays empty.                                                        *)
(***************************************************************************)
EXTENDS Integers, Sequences, FiniteSets, TLC

(* ------------------------------ bounds --------------------------------- *)
MaxUsers == 2
MaxTasks == 2
MaxIncoming == 2
MaxOps == 4

(* --------------------------- request values ---------------------------- *)
(* The requests served draw their fields from these sets.  Two user names   *)
(* tell owners apart in assignedUserName; the emails differ in case and one *)
(* carries a RegExp metacharacter; a Task's name, description and deadline  *)
(* take part in no decision of the handlers and have one value each.        *)
Unassigned == 0

UserNames == {"ann", "bob"}
Emails == { <<"a">>, <<"A">>, <<"a", "+", "b">> }
TaskNames == {"x"}
Descriptions == {"d"}
Deadlines == {"D"}

RECURSIVE SeqsUpTo(_, _)
SeqsUpTo(S, n) ==
  IF n = 0 THEN { <<>> }
  ELSE LET shorter == SeqsUpTo(S, n - 1)
       IN shorter \cup { Append(s, x) : s \in shorter, x \in S }

TaskIdInputs == 1..MaxTasks
UserIdInputs == 0..MaxUsers
PendingInputs == SeqsUpTo(TaskIdInputs, MaxIncoming)

VARIABLES users, tasks, nextUserId, nextTaskId, last, ops, procs

vars == <<users, tasks, nextUserId, nextTaskId, last, ops, procs>>

(* --------------------------- pending helpers --------------------------- *)
Contains(seq, x) == \E i \in 1..Len(seq) : seq[i] = x

Occurrences(seq, x) == Cardinality({ i \in 1..Len(seq) : seq[i] = x })

(* the push left out *)
addPending_Never(user, taskId) ==
  user

(* the push without the test of the Set *)
addPending_Always(user, taskId) ==
  [user EXCEPT !.pendingTasks = Append(@, taskId)]

addPending(user, taskId) ==
  IF ~Contains(user.pendingTasks, taskId)
  THEN [user EXCEPT !.pendingTasks = Append(@, taskId)]
  ELSE user

removePending(user, taskId) ==
  [user EXCEPT !.pendingTasks = SelectSeq(@, LAMBDA id : id # taskId)]

(* the push without the includes() test *)
tc_addPending_Always(user, taskId) ==
  [user EXCEPT !.pendingTasks = Append(@, taskId)]

tc_addPending(user, taskId) ==
  IF ~Contains(user.pendingTasks, taskId)
  THEN [user EXCEPT !.pendingTasks = Append(@, taskId)]
  ELSE user

(* the filter keeping every id *)
tc_removePending_Keeps(user, taskId) == user

tc_removePending(user, taskId) ==
  [user EXCEPT !.pendingTasks = SelectSeq(@, LAMBDA id : id # taskId)]

(* ------------------ new RegExp(`^${email}$`, 'i') ---------------------- *)
Canonicalize(ch) ==
  IF ch = "a" THEN "A" ELSE IF ch = "b" THEN "B" ELSE ch

PatternValid(pat) ==
  \A i \in 1..Len(pat) : pat[i] = "+" => (i > 1 /\ pat[i - 1] # "+")

AtomMatches(p, ch) == p = "." \/ Canonicalize(p) = Canonicalize(ch)

RECURSIVE MatchFrom(_, _, _, _)
MatchFrom(pat, i, str, j) ==
  IF i > Len(pat) THEN j > Len(str)
  ELSE IF i < Len(pat) /\ pat[i + 1] = "+"
       THEN \E k \in j..Len(str) :
              /\ \A m \in j..k : AtomMatches(pat[i], str[m])
              /\ MatchFrom(pat, i + 2, str, k + 1)
       ELSE /\ j <= Len(str)
            /\ AtomMatches(pat[i], str[j])
            /\ MatchFrom(pat, i + 1, str, j + 1)

EmailRegExpTest(email, str) == MatchFrom(email, 1, str, 1)

(* ------------------------------ counters ------------------------------- *)
UserCounters ==
  [reassigned |-> 0, unassigned |-> 0, completedAssigned |-> 0,
   completedNotReassigned |-> 0, invalid |-> 0]

TaskCounters ==
  [reassigned |-> 0, unassigned |-> 0, addedPending |-> 0, removedPending |-> 0,
   completedAssigned |-> 0, completedNotReassigned |-> 0]

NoCounters == [none |-> 0]
NoLocals == [none |-> 0]

(* what the handler hands to res.json(...) or to next(err): the status, the *)
(* base message, the primary entity's id, the counters behind the note,     *)
(* and the locals the handler computed on the way                           *)
Response(op, status, message, id, counters, locals) ==
  [op |-> op, status |-> status, message |-> message, id |-> id,
   counters |-> counters, locals |-> locals]

ErrorResponse(op, message, statusCode) ==
  Response(op, statusCode, message, 0, NoCounters, NoLocals)

Without(f, id) == [k \in (DOMAIN f) \ {id} |-> f[k]]

(* ===================== controllers/userController.js =================== *)

(* the lookup by the email as written: User.findOne({ email }) *)
findOneByEmail_ExactCase(us, email) ==
  \E u \in DOMAIN us : us[u].email = email

(* User.findOne({ email: new RegExp(`^${email}$`, 'i') }) *)
findOneByEmail(us, email) ==
  \E u \in DOMAIN us : EmailRegExpTest(email, us[u].email)

(* User.findOne({ _id: { $ne: user._id }, email: new RegExp(...) }) *)
findOneOtherByEmail(us, id, email) ==
  \E u \in DOMAIN us : u # id /\ EmailRegExpTest(email, us[u].email)

(* Array.isArray(req.body.pendingTasks) ? req.body.pendingTasks.map(String) : [] *)
incomingOf(req) ==
  IF "pendingTasks" \in DOMAIN req THEN req.pendingTasks ELSE <<>>

(* for (const taskId of incoming) { ... } of createUser *)
RECURSIVE createUserLoop(_, _, _, _, _, _)
createUserLoop(incoming, i, uid, user, tks, counters) ==
  IF i > Len(incoming)
  THEN [user |-> user, tasks |-> tks, counters |-> counters]
  ELSE
    LET taskId == incoming[i] IN
    IF taskId \notin DOMAIN tks
    THEN createUserLoop(incoming, i + 1, uid, user, tks,
                        [counters EXCEPT !.invalid = @ + 1])
    ELSE
      LET task == tks[taskId]
          current == task.assignedUser
          isSameUser == current = uid
          saved == [tks EXCEPT ![taskId].assignedUser = uid,
                               ![taskId].assignedUserName = user.name]
      IN
      IF task.completed
      THEN IF current = Unassigned
           THEN createUserLoop(incoming, i + 1, uid, user, saved,
                               [counters EXCEPT !.completedAssigned = @ + 1])
           ELSE IF ~isSameUser
           THEN createUserLoop(incoming, i + 1, uid, user, tks,
                               [counters EXCEPT !.completedNotReassigned = @ + 1])
           ELSE createUserLoop(incoming, i + 1, uid, user, tks, counters)
      ELSE IF current = Unassigned
           THEN createUserLoop(incoming, i + 1, uid, addPending(user, taskId),
                               saved, counters)
           ELSE IF ~isSameUser
           THEN createUserLoop(incoming, i + 1, uid, addPending(user, taskId),
                               saved, [counters EXCEPT !.reassigned = @ + 1])
           ELSE createUserLoop(incoming, i + 1, uid, addPending(user, taskId),
                               tks, counters)

(* exports.createUser: the stores and the response after the request *)
createUser(us, tks, newId, req) ==
  IF req.name = "" \/ req.email = <<>>
  THEN [users |-> us, tasks |-> tks,
        res |-> ErrorResponse("createUser", "Name and Email are required", 400)]
  ELSE IF ~PatternValid(req.email)
  THEN [users |-> us, tasks |-> tks,
        res |-> ErrorResponse("createUser", "Failed to create user", 500)]
  ELSE IF findOneByEmail(us, req.email)
  THEN [users |-> us, tasks |-> tks,
        res |-> ErrorResponse("createUser", "Email already exists", 400)]
  ELSE
    LET user == [name |-> req.name, email |-> req.email, pendingTasks |-> <<>>]
        done == createUserLoop(incomingOf(req), 1, newId, user, tks, UserCounters)
    IN [users |-> (newId :> done.user) @@ us, tasks |-> done.tasks,
        res |-> Response("createUser", 201, "User created successfully.", newId,
                         done.counters, NoLocals)]

(* the loop clearing assignedUser without resetting assignedUserName *)
RECURSIVE updateUserOldLoop_KeepsName(_, _, _, _, _, _)
updateUserOldLoop_KeepsName(oldPending, i, incoming, uid, tks, counters) ==
  IF i > Len(oldPending)
  THEN [tasks |-> tks, counters |-> counters]
  ELSE
    LET oldTaskId == oldPending[i] IN
    IF /\ ~Contains(incoming, oldTaskId)
       /\ oldTaskId \in DOMAIN tks
       /\ tks[oldTaskId].assignedUser = uid
    THEN updateUserOldLoop_KeepsName(
           oldPending, i + 1, incoming, uid,
           [tks EXCEPT ![oldTaskId].assignedUser = Unassigned],
           [counters EXCEPT !.unassigned = @ + 1])
    ELSE updateUserOldLoop_KeepsName(oldPending, i + 1, incoming, uid, tks,
                                     counters)

(* the loop over oldPending left out *)
updateUserOldLoop_Skip(oldPending, i, incoming, uid, tks, counters) ==
  [tasks |-> tks, counters |-> counters]

(* for (const oldTaskId of oldPending) { ... } of updateUser *)
RECURSIVE updateUserOldLoop(_, _, _, _, _, _)
updateUserOldLoop(oldPending, i, incoming, uid, tks, counters) ==
  IF i > Len(oldPending)
  THEN [tasks |-> tks, counters |-> counters]
  ELSE
    LET oldTaskId == oldPending[i] IN
    IF /\ ~Contains(incoming, oldTaskId)
       /\ oldTaskId \in DOMAIN tks
       /\ tks[oldTaskId].assignedUser = uid
    THEN updateUserOldLoop(oldPending, i + 1, incoming, uid,
                           [tks EXCEPT ![oldTaskId].assignedUser = Unassigned,
                                       ![oldTaskId].assignedUserName = "unassigned"],
                           [counters EXCEPT !.unassigned = @ + 1])
    ELSE updateUserOldLoop(oldPending, i + 1, incoming, uid, tks, counters)

(* for (const taskId of incoming) { ... } of updateUser *)
RECURSIVE updateUserLoop(_, _, _, _, _, _)
updateUserLoop(incoming, i, uid, user, tks, counters) ==
  IF i > Len(incoming)
  THEN [user |-> user, tasks |-> tks, counters |-> counters]
  ELSE
    LET taskId == incoming[i] IN
    IF taskId \notin DOMAIN tks
    THEN updateUserLoop(incoming, i + 1, uid, user, tks,
                        [counters EXCEPT !.invalid = @ + 1])
    ELSE
      LET task == tks[taskId]
          current == task.assignedUser
          isSameUser == current = uid
          saved == [tks EXCEPT ![taskId].assignedUser = uid,
                               ![taskId].assignedUserName = user.name]
      IN
      IF task.completed
      THEN IF current = Unassigned
           THEN updateUserLoop(incoming, i + 1, uid, user, saved,
                               [counters EXCEPT !.completedAssigned = @ + 1])
           ELSE IF ~isSameUser
           THEN updateUserLoop(incoming, i + 1, uid, user, tks,
                               [counters EXCEPT !.completedNotReassigned = @ + 1])
           ELSE updateUserLoop(incoming, i + 1, uid, user, tks, counters)
      ELSE IF current = Unassigned
           THEN updateUserLoop(incoming, i + 1, uid, addPending(user, taskId),
                               saved, counters)
           ELSE IF ~isSameUser
           THEN updateUserLoop(incoming, i + 1, uid, addPending(user, taskId),
                               saved, [counters EXCEPT !.reassigned = @ + 1])
           ELSE updateUserLoop(incoming, i + 1, uid, addPending(user, taskId),
                               tks, counters)

(* exports.updateUser *)
updateUser(us, tks, id, req) ==
  IF req.name = "" \/ req.email = <<>>
  THEN [users |-> us, tasks |-> tks,
        res |-> ErrorResponse("updateUser", "Name and Email are required", 400)]
  ELSE IF id \notin DOMAIN us
  THEN [users |-> us, tasks |-> tks,
        res |-> ErrorResponse("updateUser", "User not found", 404)]
  ELSE IF ~PatternValid(req.email)
  THEN [users |-> us, tasks |-> tks,
        res |-> ErrorResponse("updateUser", "Invalid user ID", 400)]
  ELSE IF findOneOtherByEmail(us, id, req.email)
  THEN [users |-> us, tasks |-> tks,
        res |-> ErrorResponse("updateUser", "Email already exists", 400)]
  ELSE
    LET oldPending == us[id].pendingTasks
        incoming == incomingOf(req)
        user == [name |-> req.name, email |-> req.email, pendingTasks |-> <<>>]
        cleaned == updateUserOldLoop(oldPending, 1, incoming, id, tks, UserCounters)
        done == updateUserLoop(incoming, 1, id, user, cleaned.tasks, cleaned.counters)
    IN [users |-> [us EXCEPT ![id] = done.user], tasks |-> done.tasks,
        res |-> Response("updateUser", 200, "User updated.", id,
                         done.counters, [oldPending |-> oldPending])]

(* the query with completed: true *)
findIncompleteTasksOf_Completed(tks, id) ==
  { t \in DOMAIN tks : tks[t].assignedUser = id /\ tks[t].completed = TRUE }

(* the query without the completed filter *)
findIncompleteTasksOf_Any(tks, id) ==
  { t \in DOMAIN tks : tks[t].assignedUser = id }

(* Task.find({ assignedUser: user._id.toString(), completed: false }) *)
findIncompleteTasksOf(tks, id) ==
  { t \in DOMAIN tks : tks[t].assignedUser = id /\ tks[t].completed = FALSE }

(* exports.deleteUser *)
deleteUser(us, tks, id) ==
  IF id \notin DOMAIN us
  THEN [users |-> us, tasks |-> tks,
        res |-> ErrorResponse("deleteUser", "User not found", 404)]
  ELSE
    LET found == findIncompleteTasksOf(tks, id)
        unassignedCount == Cardinality(found)
    IN [users |-> Without(us, id),
        tasks |-> [t \in DOMAIN tks |->
                     IF t \in found
                     THEN [tks[t] EXCEPT !.assignedUser = Unassigned,
                                         !.assignedUserName = "unassigned"]
                     ELSE tks[t]],
        res |-> Response("deleteUser", 200, "User deleted.", id,
                         [unassigned |-> unassignedCount], NoLocals)]

(* ===================== controllers/taskController.js =================== *)

(* null instead of the throw for an id that resolves to no User *)
loadUserOrNull_Lenient(us, userId) ==
  IF userId \in DOMAIN us THEN [throws |-> FALSE, id |-> userId]
  ELSE [throws |-> FALSE, id |-> Unassigned]

(* loadUserOrNull: null for '', throws for an id that resolves to no User *)
loadUserOrNull(us, userId) ==
  IF userId = Unassigned THEN [throws |-> FALSE, id |-> Unassigned]
  ELSE IF userId \notin DOMAIN us THEN [throws |-> TRUE, id |-> Unassigned]
  ELSE [throws |-> FALSE, id |-> userId]

(* if (assignedUser) without the test of completed *)
addsToPending_Always(assignedUser, completed) ==
  assignedUser.id # Unassigned

(* if (assignedUser && !completed) *)
addsToPending(assignedUser, completed) ==
  assignedUser.id # Unassigned /\ ~completed

(* createTask saving the Task before resolving assignedUser *)
createTask_SaveFirst(us, tks, newId, req) ==
  IF req.name = "" \/ req.deadline = ""
  THEN [users |-> us, tasks |-> tks,
        res |-> ErrorResponse("createTask", "Name and Deadline are required", 400)]
  ELSE
    LET assignedUser == loadUserOrNull(us, req.assignedUser)
        assignedUserName ==
          IF assignedUser.id # Unassigned THEN us[assignedUser.id].name
          ELSE "unassigned"
        task == [name |-> req.name, description |-> req.description,
                 deadline |-> req.deadline, completed |-> req.completed,
                 assignedUser |-> assignedUser.id,
                 assignedUserName |-> assignedUserName]
    IN
    IF assignedUser.throws
    THEN [users |-> us, tasks |-> (newId :> task) @@ tks,
          res |-> ErrorResponse("createTask", "Invalid assigned user ID", 400)]
    ELSE
      [users |-> IF addsToPending(assignedUser, req.completed)
                 THEN [us EXCEPT ![assignedUser.id] = tc_addPending(@, newId)]
                 ELSE us,
       tasks |-> (newId :> task) @@ tks,
       res |-> Response("createTask", 201, "Task created", newId, NoCounters,
                        [completed |-> req.completed,
                         assignedUserId |-> req.assignedUser])]

(* exports.createTask *)
createTask(us, tks, newId, req) ==
  IF req.name = "" \/ req.deadline = ""
  THEN [users |-> us, tasks |-> tks,
        res |-> ErrorResponse("createTask", "Name and Deadline are required", 400)]
  ELSE
    LET assignedUser == loadUserOrNull(us, req.assignedUser) IN
    IF assignedUser.throws
    THEN [users |-> us, tasks |-> tks,
          res |-> ErrorResponse("createTask", "Invalid assigned user ID", 400)]
    ELSE
      LET assignedUserName ==
            IF assignedUser.id # Unassigned THEN us[assignedUser.id].name
            ELSE "unassigned"
          task == [name |-> req.name, description |-> req.description,
                   deadline |-> req.deadline, completed |-> req.completed,
                   assignedUser |-> assignedUser.id,
                   assignedUserName |-> assignedUserName]
      IN [users |-> IF addsToPending(assignedUser, req.completed)
                    THEN [us EXCEPT ![assignedUser.id] = tc_addPending(@, newId)]
                    ELSE us,
          tasks |-> (newId :> task) @@ tks,
          res |-> Response("createTask", 201, "Task created", newId, NoCounters,
                           [completed |-> req.completed,
                            assignedUserId |-> req.assignedUser])]

(* the first guard comparing with === instead of !== *)
completedNotReassignedCase_SameUser(completed, oldUserId, newUserId) ==
  /\ completed
  /\ oldUserId # Unassigned /\ newUserId # Unassigned
  /\ newUserId = oldUserId

(* if (completed) { if (oldUserId && newUserId && newUserId !== oldUserId) *)
completedNotReassignedCase(completed, oldUserId, newUserId) ==
  /\ completed
  /\ oldUserId # Unassigned /\ newUserId # Unassigned
  /\ newUserId # oldUserId

(* if (completed) { ... if (!oldUserId && newUserId) *)
completedAssignedCase(completed, oldUserId, newUserId) ==
  completed /\ oldUserId = Unassigned /\ newUserId # Unassigned

(* exports.updateTask, lines 224-264: the general path after the guard *)
updateTaskGeneral(us, tks, id, req, oldUserId, oldCompleted, newUserId, newAssignedUserName) ==
  LET completed == req.completed
      task == [tks[id] EXCEPT !.name = req.name,
                              !.description = req.description,
                              !.deadline = req.deadline,
                              !.completed = completed,
                              !.assignedUser = newUserId,
                              !.assignedUserName = newAssignedUserName]
      oldGone == oldUserId # Unassigned /\ oldUserId \in DOMAIN us
      afterOld == IF oldGone
                  THEN [us EXCEPT ![oldUserId] = tc_removePending(@, id)]
                  ELSE us
      cOld == IF oldGone THEN [TaskCounters EXCEPT !.unassigned = @ + 1]
              ELSE TaskCounters
      same == newUserId # Unassigned /\ newUserId \in DOMAIN us
      removed == same /\ ~oldCompleted /\ completed
      added == same /\ oldCompleted /\ ~completed
  IN
  IF oldUserId # newUserId
  THEN IF newUserId # Unassigned /\ ~completed
       THEN [users |-> [afterOld EXCEPT ![newUserId] = tc_addPending(@, id)],
             tasks |-> [tks EXCEPT ![id] = task],
             counters |-> [cOld EXCEPT !.reassigned = @ + 1,
                                       !.addedPending = @ + 1]]
       ELSE [users |-> afterOld, tasks |-> [tks EXCEPT ![id] = task],
             counters |-> cOld]
  ELSE [users |-> IF removed
                  THEN [us EXCEPT ![newUserId] = tc_removePending(@, id)]
                  ELSE IF added
                  THEN [us EXCEPT ![newUserId] = tc_addPending(@, id)]
                  ELSE us,
        tasks |-> [tks EXCEPT ![id] = task],
        counters |-> [TaskCounters EXCEPT
                        !.removedPending = IF removed THEN @ + 1 ELSE @,
                        !.addedPending = IF added THEN @ + 1 ELSE @]]

(* exports.updateTask *)
updateTask(us, tks, id, req) ==
  IF id \notin DOMAIN tks
  THEN [users |-> us, tasks |-> tks,
        res |-> ErrorResponse("updateTask", "Task not found", 404)]
  ELSE IF req.name = "" \/ req.deadline = ""
  THEN [users |-> us, tasks |-> tks,
        res |-> ErrorResponse("updateTask", "Name and Deadline are required", 400)]
  ELSE
    LET newUser == loadUserOrNull(us, req.assignedUser) IN
    IF newUser.throws
    THEN [users |-> us, tasks |-> tks,
          res |-> ErrorResponse("updateTask", "Invalid assigned user ID", 400)]
    ELSE
      LET completed == req.completed
          oldUserId == tks[id].assignedUser
          oldCompleted == tks[id].completed
          newUserId == newUser.id
          newAssignedUserName ==
            IF newUserId # Unassigned THEN us[newUserId].name ELSE "unassigned"
          locals == [oldUserId |-> oldUserId, oldCompleted |-> oldCompleted,
                     newUserId |-> newUserId, completed |-> completed]
          general == updateTaskGeneral(us, tks, id, req, oldUserId, oldCompleted,
                                       newUserId, newAssignedUserName)
      IN
      IF completedNotReassignedCase(completed, oldUserId, newUserId)
      THEN [users |-> us,
            tasks |-> [tks EXCEPT ![id].name = req.name,
                                  ![id].description = req.description,
                                  ![id].deadline = req.deadline,
                                  ![id].completed = completed],
            res |-> Response("updateTask", 200, "Task updated.", id,
                             [TaskCounters EXCEPT !.completedNotReassigned = @ + 1],
                             locals)]
      ELSE IF completedAssignedCase(completed, oldUserId, newUserId)
      THEN [users |-> us,
            tasks |-> [tks EXCEPT ![id].name = req.name,
                                  ![id].description = req.description,
                                  ![id].deadline = req.deadline,
                                  ![id].completed = completed,
                                  ![id].assignedUser = newUserId,
                                  ![id].assignedUserName = newAssignedUserName],
            res |-> Response("updateTask", 200, "Task updated.", id,
                             [TaskCounters EXCEPT !.completedAssigned = @ + 1],
                             locals)]
      ELSE [users |-> general.users, tasks |-> general.tasks,
            res |-> Response("updateTask", 200, "Task updated.", id,
                             general.counters, locals)]

(* exports.deleteTask *)
deleteTask(us, tks, id) ==
  IF id \notin DOMAIN tks
  THEN [users |-> us, tasks |-> tks,
        res |-> ErrorResponse("deleteTask", "Task not found", 404)]
  ELSE
    LET task == tks[id] IN
    [users |-> IF task.assignedUser # Unassigned /\ task.assignedUser \in DOMAIN us
               THEN [us EXCEPT ![task.assignedUser] = tc_removePending(@, id)]
               ELSE us,
     tasks |-> Without(tks, id),
     res |-> Response("deleteTask", 200, "Task deleted", id, NoCounters,
                      NoLocals)]

(* ============================ the state machine ======================== *)

(* request bodies: every well-formed body over the request values, and one *)
(* body for each way a required field can be missing                       *)
MalformedUserReqs ==
  { [name |-> "", email |-> <<"a">>, pendingTasks |-> <<1>>],
    [name |-> "ann", email |-> <<>>, pendingTasks |-> <<1>>],
    [name |-> "ann", email |-> <<"+", "a">>, pendingTasks |-> <<1>>] }

UserReqs ==
  [name : UserNames, email : Emails, pendingTasks : PendingInputs]
    \cup MalformedUserReqs

MalformedTaskReqs ==
  { [name |-> "", description |-> "d", deadline |-> "D",
     completed |-> FALSE, assignedUser |-> 1],
    [name |-> "x", description |-> "d", deadline |-> "",
     completed |-> FALSE, assignedUser |-> 1] }

TaskReqs ==
  [name : TaskNames, description : Descriptions, deadline : Deadlines,
   completed : BOOLEAN, assignedUser : UserIdInputs]
    \cup MalformedTaskReqs

(* ids the store has not issued yet all resolve to nothing: the next id to *)
(* be issued stands for all of them                                        *)
KnownTaskIds(req) ==
  \A i \in 1..Len(req.pendingTasks) : req.pendingTasks[i] <= nextTaskId

KnownUserId(req) == req.assignedUser <= nextUserId

(* a request for an id that resolves to no document is answered from the   *)
(* required fields alone: one well-formed body and the malformed ones      *)
ProbeUserReqs ==
  MalformedUserReqs \cup { [name |-> "ann", email |-> <<"a">>, pendingTasks |-> <<>>] }

ProbeTaskReqs ==
  MalformedTaskReqs \cup { [name |-> "x", description |-> "d", deadline |-> "D",
                            completed |-> FALSE, assignedUser |-> Unassigned] }

Init ==
  /\ users = <<>>
  /\ tasks = <<>>
  /\ nextUserId = 1
  /\ nextTaskId = 1
  /\ last = Response("none", 0, "", 0, NoCounters, NoLocals)
  /\ ops = 0
  /\ procs = <<>>

Apply(r) ==
  /\ users' = r.users
  /\ tasks' = r.tasks
  /\ last' = r.res
  /\ ops' = ops + 1
  /\ procs' = procs

CreateUser ==
  /\ ops < MaxOps
  /\ nextUserId <= MaxUsers
  /\ \E req \in UserReqs :
       /\ KnownTaskIds(req)
       /\ \E r \in {createUser(users, tasks, nextUserId, req)} :
          /\ Apply(r)
          /\ nextUserId' = IF r.res.status = 201 THEN nextUserId + 1
                           ELSE nextUserId
  /\ UNCHANGED nextTaskId

UpdateUser ==
  /\ ops < MaxOps
  /\ \E id \in 1..MaxUsers, req \in UserReqs :
       /\ id <= nextUserId
       /\ id \in DOMAIN users \/ req \in ProbeUserReqs
       /\ KnownTaskIds(req)
       /\ \E r \in {updateUser(users, tasks, id, req)} : Apply(r)
  /\ UNCHANGED <<nextUserId, nextTaskId>>

DeleteUser ==
  /\ ops < MaxOps
  /\ \E id \in 1..MaxUsers :
       /\ id <= nextUserId
       /\ \E r \in {deleteUser(users, tasks, id)} : Apply(r)
  /\ UNCHANGED <<nextUserId, nextTaskId>>

CreateTask ==
  /\ ops < MaxOps
  /\ nextTaskId <= MaxTasks
  /\ \E req \in TaskReqs :
       /\ KnownUserId(req)
       /\ \E r \in {createTask(users, tasks, nextTaskId, req)} :
          /\ Apply(r)
          /\ nextTaskId' = IF r.res.status = 201 THEN nextTaskId + 1
                           ELSE nextTaskId
  /\ UNCHANGED nextUserId

UpdateTask ==
  /\ ops < MaxOps
  /\ \E id \in 1..MaxTasks, req \in TaskReqs :
       /\ id <= nextTaskId
       /\ id \in DOMAIN tasks \/ req \in ProbeTaskReqs
       /\ KnownUserId(req)
       /\ \E r \in {updateTask(users, tasks, id, req)} : Apply(r)
  /\ UNCHANGED <<nextUserId, nextTaskId>>

DeleteTask ==
  /\ ops < MaxOps
  /\ \E id \in 1..MaxTasks :
       /\ id <= nextTaskId
       /\ \E r \in {deleteTask(users, tasks, id)} : Apply(r)
  /\ UNCHANGED <<nextUserId, nextTaskId>>

Next ==
  \/ CreateUser
  \/ UpdateUser
  \/ DeleteUser
  \/ CreateTask
  \/ UpdateTask
  \/ DeleteTask

Spec == Init /\ [][Next]_vars

(* ================== the handlers, one store call at a time ============= *)
(* Every await of a handler is one store call.  A request in flight is a    *)
(* record: the handler (op), its :id parameter and body, the store call it  *)
(* is waiting for (pc), the documents it holds in memory (user, task, the   *)
(* list it iterates and its index), its counters, what it answered (status, *)
(* message), how often it called res.json (sent) and next(err) (nexted),    *)
(* how many store calls it made (calls) and the writes the store accepted   *)
(* from it, in order (writes).                                              *)
(*                                                                          *)
(* A store call either completes (ok) or throws; a throw lands in the       *)
(* handler's catch.  save() sends the modified paths of a document it has   *)
(* loaded: it changes nothing when the document is gone from the store.     *)

Slots == {"r1", "r2"}

NoDoc == [missing |-> TRUE]
NoReq == [none |-> 0]

IdleProc ==
  [op |-> "none", pc |-> "idle", id |-> 0, req |-> NoReq,
   uid |-> 0, user |-> NoDoc, tid |-> 0, task |-> NoDoc,
   list |-> <<>>, incoming |-> <<>>, i |-> 1, branch |-> "",
   counters |-> NoCounters, status |-> 0, message |-> "",
   sent |-> 0, nexted |-> 0, calls |-> 0, writes |-> <<>>, threw |-> FALSE]

(* a response followed by next(err) *)
sendJson_ThenNext(p, status, message) ==
  [p EXCEPT !.pc = "done", !.status = status, !.message = message,
            !.sent = @ + 1, !.nexted = @ + 1]

(* res.status(status).json({ message, data }) *)
sendJson(p, status, message) ==
  [p EXCEPT !.pc = "done", !.status = status, !.message = message,
            !.sent = @ + 1]

(* next(new ErrorResponse(message, statusCode)), answered by errorHandler *)
nextErr(p, message, statusCode) ==
  [p EXCEPT !.pc = "done", !.status = statusCode, !.message = message,
            !.nexted = @ + 1]

(* the store call the request was waiting for has been made *)
called(p) == [p EXCEPT !.calls = @ + 1]

(* the store accepted a write of the request *)
wrote(p, coll, id, doc) ==
  [p EXCEPT !.writes = Append(@, [coll |-> coll, id |-> id, doc |-> doc])]

StepResult(p, us, tks) == [proc |-> p, users |-> us, tasks |-> tks]

(* the store call threw *)
thrown(p) == [p EXCEPT !.threw = TRUE]

(* ---- exports.createTask ---- *)
createTaskBegin(req, newId) ==
  LET p == [IdleProc EXCEPT !.op = "createTask", !.req = req, !.tid = newId]
  IN
  IF req.name = "" \/ req.deadline = ""
  THEN nextErr(p, "Name and Deadline are required", 400)
  ELSE
    LET task == [name |-> req.name, description |-> req.description,
                 deadline |-> req.deadline, completed |-> req.completed,
                 assignedUser |-> Unassigned,
                 assignedUserName |-> "unassigned"]
    IN IF req.assignedUser = Unassigned
       THEN [p EXCEPT !.pc = "task.save", !.task = task]
       ELSE [p EXCEPT !.pc = "User.findById", !.uid = req.assignedUser]

(* catch (err) of createTask, for an err that is no ErrorResponse *)
createTaskCatch(q, us, tks) ==
  StepResult(nextErr(q, "Failed to create task", 500), us, tks)

createTaskCall(p, us, tks, ok) ==
  LET q == called(p) IN
  IF ~ok
  THEN createTaskCatch(thrown(q), us, tks)
  ELSE IF p.pc = "User.findById"
  THEN LET assignedUser == loadUserOrNull(us, p.uid) IN
       IF assignedUser.throws
       THEN StepResult(nextErr(q, "Invalid assigned user ID", 400), us, tks)
       ELSE IF assignedUser.id = Unassigned
       THEN StepResult(
              [q EXCEPT !.pc = "task.save", !.uid = Unassigned,
                        !.task = [name |-> p.req.name,
                                  description |-> p.req.description,
                                  deadline |-> p.req.deadline,
                                  completed |-> p.req.completed,
                                  assignedUser |-> Unassigned,
                                  assignedUserName |-> "unassigned"]],
              us, tks)
       ELSE StepResult(
              [q EXCEPT !.pc = "task.save", !.user = us[assignedUser.id],
                        !.task = [name |-> p.req.name,
                                  description |-> p.req.description,
                                  deadline |-> p.req.deadline,
                                  completed |-> p.req.completed,
                                  assignedUser |-> assignedUser.id,
                                  assignedUserName |-> us[assignedUser.id].name]],
              us, tks)
  ELSE IF p.pc = "task.save"
  THEN LET saved == (p.tid :> p.task) @@ tks
           r == wrote(q, "tasks", p.tid, p.task)
       IN IF addsToPending([id |-> p.uid], p.req.completed)
          THEN StepResult([r EXCEPT !.pc = "assignedUser.save",
                                    !.user = tc_addPending(p.user, p.tid)],
                          us, saved)
          ELSE StepResult(sendJson(r, 201, "Task created"), us, saved)
  ELSE (* assignedUser.save(): the push of the new Task's id *)
       IF p.uid \in DOMAIN us
       THEN LET doc == tc_addPending(us[p.uid], p.tid) IN
            StepResult(sendJson(wrote(q, "users", p.uid, doc), 201,
                                "Task created"),
                       [us EXCEPT ![p.uid] = doc], tks)
       ELSE StepResult(sendJson(q, 201, "Task created"), us, tks)

(* ---- exports.deleteUser ---- *)
RECURSIVE SetToSeq(_)
SetToSeq(S) ==
  IF S = {} THEN <<>>
  ELSE LET m == CHOOSE x \in S : \A y \in S : x <= y
       IN <<m>> \o SetToSeq(S \ {m})

deleteUserBegin(id) ==
  [IdleProc EXCEPT !.op = "deleteUser", !.id = id, !.uid = id,
                   !.pc = "User.findById"]

(* catch (err) of deleteUser *)
deleteUserCatch(q, us, tks) ==
  StepResult(nextErr(q, "User not found", 404), us, tks)

deleteUserCall(p, us, tks, ok) ==
  LET q == called(p) IN
  IF ~ok
  THEN deleteUserCatch(thrown(q), us, tks)
  ELSE IF p.pc = "User.findById"
  THEN IF p.id \notin DOMAIN us
       THEN StepResult(nextErr(q, "User not found", 404), us, tks)
       ELSE StepResult([q EXCEPT !.pc = "Task.find", !.user = us[p.id]],
                       us, tks)
  ELSE IF p.pc = "Task.find"
  THEN LET found == SetToSeq(findIncompleteTasksOf(tks, p.id)) IN
       StepResult([q EXCEPT !.list = found, !.i = 1,
                            !.counters = [unassigned |-> Len(found)],
                            !.pc = IF found = <<>> THEN "user.deleteOne"
                                   ELSE "task.save"],
                  us, tks)
  ELSE IF p.pc = "task.save"
  THEN LET t == p.list[p.i]
           after == [q EXCEPT !.i = @ + 1,
                              !.pc = IF p.i + 1 > Len(p.list)
                                     THEN "user.deleteOne" ELSE "task.save"]
       IN IF t \in DOMAIN tks
          THEN LET doc == [tks[t] EXCEPT !.assignedUser = Unassigned,
                                         !.assignedUserName = "unassigned"]
               IN StepResult(wrote(after, "tasks", t, doc), us,
                             [tks EXCEPT ![t] = doc])
          ELSE StepResult(after, us, tks)
  ELSE (* user.deleteOne() *)
       IF p.id \in DOMAIN us
       THEN StepResult(sendJson(wrote(q, "users", p.id, NoDoc), 200,
                                "User deleted."),
                       Without(us, p.id), tks)
       ELSE StepResult(sendJson(q, 200, "User deleted."), us, tks)

(* ---- exports.createUser ---- *)

(* the head of for (const taskId of incoming): the next findById, or the   *)
(* user.save() after the loop                                              *)
incomingHead(q, i) ==
  [q EXCEPT !.i = i,
            !.pc = IF i > Len(q.incoming) THEN "user.save"
                   ELSE "Task.findById"]

(* one pass of the loop body up to its await: Task.findById(taskId) has    *)
(* answered (createUser 133-164; updateUser 225-256 is the same text)      *)
incomingFound(q, tks) ==
  LET taskId == q.incoming[q.i] IN
  IF taskId \notin DOMAIN tks
  THEN incomingHead([q EXCEPT !.counters.invalid = @ + 1], q.i + 1)
  ELSE
    LET task == tks[taskId]
        current == task.assignedUser
        isSameUser == current = q.uid
        toSave == [q EXCEPT !.pc = "task.save", !.tid = taskId,
                            !.task = [task EXCEPT
                                        !.assignedUser = q.uid,
                                        !.assignedUserName = q.user.name]]
    IN
    IF task.completed
    THEN IF current = Unassigned
         THEN [toSave EXCEPT !.branch = "completedAssigned"]
         ELSE IF ~isSameUser
         THEN incomingHead(
                [q EXCEPT !.counters.completedNotReassigned = @ + 1], q.i + 1)
         ELSE incomingHead(q, q.i + 1)
    ELSE IF current = Unassigned
         THEN [toSave EXCEPT !.branch = "assigned"]
         ELSE IF ~isSameUser
         THEN [toSave EXCEPT !.branch = "reassigned"]
         ELSE incomingHead([q EXCEPT !.user = addPending(q.user, taskId)],
                           q.i + 1)

(* task.save() of the loop body has answered: what follows it in its branch *)
incomingSaved(q) ==
  incomingHead(
    IF q.branch = "completedAssigned"
    THEN [q EXCEPT !.counters.completedAssigned = @ + 1]
    ELSE IF q.branch = "assigned"
    THEN [q EXCEPT !.user = addPending(q.user, q.tid)]
    ELSE [q EXCEPT !.user = addPending(q.user, q.tid),
                   !.counters.reassigned = @ + 1],
    q.i + 1)

(* task.save(): the store takes the changed assignedUser, assignedUserName *)
saveAssignment(tks, tid, task) ==
  IF tid \in DOMAIN tks
  THEN [tks EXCEPT ![tid].assignedUser = task.assignedUser,
                   ![tid].assignedUserName = task.assignedUserName]
  ELSE tks

createUserBegin(req, newId) ==
  LET p == [IdleProc EXCEPT !.op = "createUser", !.req = req, !.uid = newId]
  IN
  IF req.name = "" \/ req.email = <<>>
  THEN nextErr(p, "Name and Email are required", 400)
  ELSE IF ~PatternValid(req.email)
  THEN nextErr(p, "Failed to create user", 500)
  ELSE [p EXCEPT !.pc = "User.findOne"]

(* a catch that deletes the User the request has saved *)
createUserCatch_Rollback(q, us, tks) ==
  StepResult(nextErr(q, "Failed to create user", 500), Without(us, q.uid), tks)

(* catch (err) of createUser *)
createUserCatch(q, us, tks) ==
  StepResult(nextErr(q, "Failed to create user", 500), us, tks)

createUserCall(p, us, tks, ok) ==
  LET q == called(p) IN
  IF ~ok
  THEN createUserCatch(thrown(q), us, tks)
  ELSE IF p.pc = "User.findOne"
  THEN IF findOneByEmail(us, p.req.email)
       THEN StepResult(nextErr(q, "Email already exists", 400), us, tks)
       ELSE StepResult(
              [q EXCEPT !.pc = "new.save",
                        !.user = [name |-> p.req.name, email |-> p.req.email,
                                  pendingTasks |-> <<>>]],
              us, tks)
  ELSE IF p.pc = "new.save"
  THEN StepResult(
         incomingHead([wrote(q, "users", p.uid, p.user) EXCEPT
                         !.incoming = incomingOf(p.req),
                         !.counters = UserCounters], 1),
         (p.uid :> p.user) @@ us, tks)
  ELSE IF p.pc = "Task.findById"
  THEN StepResult(incomingFound(q, tks), us, tks)
  ELSE IF p.pc = "task.save"
  THEN LET saved == saveAssignment(tks, p.tid, p.task) IN
       StepResult(incomingSaved(IF p.tid \in DOMAIN tks
                                THEN wrote(q, "tasks", p.tid, saved[p.tid])
                                ELSE q),
                  us, saved)
  ELSE (* user.save() after the loop *)
       IF p.uid \in DOMAIN us
       THEN StepResult(sendJson(wrote(q, "users", p.uid, p.user), 201,
                                "User created successfully."),
                       [us EXCEPT ![p.uid] = p.user], tks)
       ELSE StepResult(sendJson(q, 201, "User created successfully."),
                       us, tks)

(* ---- exports.updateUser ---- *)


(* the loop over oldPending without the incoming.includes() test *)
RECURSIVE oldPendingHead_All(_, _)
oldPendingHead_All(q, i) ==
  IF i > Len(q.list) THEN incomingHead(q, 1)
  ELSE [q EXCEPT !.i = i, !.pc = "old.findById"]

(* the head of for (const oldTaskId of oldPending): the next old id that   *)
(* is not in incoming, or the head of the loop over incoming               *)
RECURSIVE oldPendingHead(_, _)
oldPendingHead(q, i) ==
  IF i > Len(q.list) THEN incomingHead(q, 1)
  ELSE IF ~Contains(q.incoming, q.list[i])
  THEN [q EXCEPT !.i = i, !.pc = "old.findById"]
  ELSE oldPendingHead(q, i + 1)

updateUserBegin(id, req) ==
  LET p == [IdleProc EXCEPT !.op = "updateUser", !.req = req, !.id = id,
                            !.uid = id]
  IN
  IF req.name = "" \/ req.email = <<>>
  THEN nextErr(p, "Name and Email are required", 400)
  ELSE [p EXCEPT !.pc = "User.findById"]

(* catch (err) of updateUser *)
updateUserCatch(q, us, tks) ==
  StepResult(nextErr(q, "Invalid user ID", 400), us, tks)

updateUserCall(p, us, tks, ok) ==
  LET q == called(p) IN
  IF ~ok
  THEN updateUserCatch(thrown(q), us, tks)
  ELSE IF p.pc = "User.findById"
  THEN IF p.id \notin DOMAIN us
       THEN StepResult(nextErr(q, "User not found", 404), us, tks)
       ELSE IF ~PatternValid(p.req.email)
       THEN StepResult(nextErr([q EXCEPT !.user = us[p.id]],
                               "Invalid user ID", 400), us, tks)
       ELSE StepResult([q EXCEPT !.pc = "User.findOne", !.user = us[p.id]],
                       us, tks)
  ELSE IF p.pc = "User.findOne"
  THEN IF findOneOtherByEmail(us, p.id, p.req.email)
       THEN StepResult(nextErr(q, "Email already exists", 400), us, tks)
       ELSE StepResult(
              oldPendingHead(
                [q EXCEPT !.list = p.user.pendingTasks,
                          !.incoming = incomingOf(p.req),
                          !.user = [name |-> p.req.name,
                                    email |-> p.req.email,
                                    pendingTasks |-> <<>>],
                          !.counters = UserCounters], 1),
              us, tks)
  ELSE IF p.pc = "old.findById"
  THEN LET oldTaskId == p.list[p.i] IN
       IF oldTaskId \in DOMAIN tks /\ tks[oldTaskId].assignedUser = p.uid
       THEN StepResult(
              [q EXCEPT !.pc = "old.save", !.tid = oldTaskId,
                        !.task = [tks[oldTaskId] EXCEPT
                                    !.assignedUser = Unassigned,
                                    !.assignedUserName = "unassigned"]],
              us, tks)
       ELSE StepResult(oldPendingHead(q, p.i + 1), us, tks)
  ELSE IF p.pc = "old.save"
  THEN LET saved == saveAssignment(tks, p.tid, p.task)
           r == IF p.tid \in DOMAIN tks
                THEN wrote(q, "tasks", p.tid, saved[p.tid]) ELSE q
       IN StepResult(
            oldPendingHead([r EXCEPT !.counters.unassigned = @ + 1],
                           p.i + 1),
            us, saved)
  ELSE IF p.pc = "Task.findById"
  THEN StepResult(incomingFound(q, tks), us, tks)
  ELSE IF p.pc = "task.save"
  THEN LET saved == saveAssignment(tks, p.tid, p.task) IN
       StepResult(incomingSaved(IF p.tid \in DOMAIN tks
                                THEN wrote(q, "tasks", p.tid, saved[p.tid])
                                ELSE q),
                  us, saved)
  ELSE (* user.save() after the loops *)
       IF p.uid \in DOMAIN us
       THEN StepResult(sendJson(wrote(q, "users", p.uid, p.user), 200,
                                "User updated."),
                       [us EXCEPT ![p.uid] = p.user], tks)
       ELSE StepResult(sendJson(q, 200, "User updated."), us, tks)

(* ---- exports.updateTask ---- *)

(* lines 231-262 after the old owner has been dealt with: the next store   *)
(* call of the oldUserId !== newUserId branch                              *)
afterOldUser(q) ==
  [q EXCEPT !.pc = IF q.task.assignedUser # Unassigned /\ ~q.task.completed
                   THEN "newUser.save" ELSE "task.save"]

(* lines 187-262: everything between the last load and the next await      *)
updateTaskDecide(q, newUserId, newAssignedUserName) ==
  LET completed == q.req.completed
      oldUserId == q.task.assignedUser
      fields == [q.task EXCEPT !.name = q.req.name,
                               !.description = q.req.description,
                               !.deadline = q.req.deadline,
                               !.completed = completed]
      general == [fields EXCEPT !.assignedUser = newUserId,
                                !.assignedUserName = newAssignedUserName]
      r == [q EXCEPT !.counters = TaskCounters, !.uid = oldUserId,
                     !.list = <<q.task.completed>>]
  IN
  IF completedNotReassignedCase(completed, oldUserId, newUserId)
  THEN [r EXCEPT !.counters.completedNotReassigned = @ + 1,
                 !.task = fields, !.pc = "task.save", !.branch = "guard"]
  ELSE IF completedAssignedCase(completed, oldUserId, newUserId)
  THEN [r EXCEPT !.task = general, !.pc = "task.save",
                 !.branch = "completedAssigned"]
  ELSE IF oldUserId # newUserId
  THEN IF oldUserId # Unassigned
       THEN [r EXCEPT !.task = general, !.pc = "oldUser.findById",
                      !.branch = "general"]
       ELSE afterOldUser([r EXCEPT !.task = general, !.branch = "general"])
  ELSE IF newUserId # Unassigned
  THEN [r EXCEPT !.task = general, !.pc = "sameUser.findById",
                 !.branch = "general"]
  ELSE [r EXCEPT !.task = general, !.pc = "task.save", !.branch = "general"]

updateTaskBegin(id, req) ==
  [IdleProc EXCEPT !.op = "updateTask", !.req = req, !.id = id, !.tid = id,
                   !.pc = "Task.findById"]

(* user.save() of a loaded User: the store takes its pendingTasks *)
savePending(us, uid, user) ==
  IF uid \in DOMAIN us
  THEN [us EXCEPT ![uid].pendingTasks = user.pendingTasks]
  ELSE us

(* catch (err) of updateTask, for an err that is no ErrorResponse *)
updateTaskCatch(q, us, tks) ==
  StepResult(nextErr(q, "Invalid task ID", 400), us, tks)

updateTaskCall(p, us, tks, ok) ==
  LET q == called(p)
      oldCompleted == p.list = <<TRUE>>
      newUserId == p.task.assignedUser
  IN
  IF ~ok
  THEN updateTaskCatch(thrown(q), us, tks)
  ELSE IF p.pc = "Task.findById"
  THEN IF p.id \notin DOMAIN tks
       THEN StepResult(nextErr(q, "Task not found", 404), us, tks)
       ELSE IF p.req.name = "" \/ p.req.deadline = ""
       THEN StepResult(nextErr(q, "Name and Deadline are required", 400),
                       us, tks)
       ELSE IF p.req.assignedUser # Unassigned
       THEN StepResult([q EXCEPT !.pc = "User.findById",
                                 !.task = tks[p.id]], us, tks)
       ELSE StepResult(
              updateTaskDecide([q EXCEPT !.task = tks[p.id]], Unassigned,
                               "unassigned"),
              us, tks)
  ELSE IF p.pc = "User.findById"
  THEN LET newUser == loadUserOrNull(us, p.req.assignedUser) IN
       IF newUser.throws
       THEN StepResult(nextErr(q, "Invalid assigned user ID", 400), us, tks)
       ELSE StepResult(
              updateTaskDecide([q EXCEPT !.user = us[newUser.id]],
                               newUser.id, us[newUser.id].name),
              us, tks)
  ELSE IF p.pc = "oldUser.findById"
  THEN IF p.uid \in DOMAIN us
       THEN StepResult([q EXCEPT !.pc = "oldUser.save"], us, tks)
       ELSE StepResult(afterOldUser(q), us, tks)
  ELSE IF p.pc = "oldUser.save"
  THEN LET oldUser == IF p.uid \in DOMAIN us
                      THEN tc_removePending(us[p.uid], p.tid) ELSE NoDoc
           saved == savePending(us, p.uid, oldUser)
           r == IF p.uid \in DOMAIN us
                THEN wrote(q, "users", p.uid, saved[p.uid]) ELSE q
       IN StepResult(
            afterOldUser([r EXCEPT !.counters.unassigned = @ + 1]),
            saved, tks)
  ELSE IF p.pc = "newUser.save"
  THEN LET saved == savePending(us, newUserId, tc_addPending(p.user, p.tid))
           r == IF newUserId \in DOMAIN us
                THEN wrote(q, "users", newUserId, saved[newUserId]) ELSE q
       IN StepResult(
            [r EXCEPT !.counters.reassigned = @ + 1,
                      !.counters.addedPending = @ + 1, !.pc = "task.save"],
            saved, tks)
  ELSE IF p.pc = "sameUser.findById"
  THEN IF newUserId \in DOMAIN us
          /\ (oldCompleted # p.task.completed)
       THEN StepResult(
              [q EXCEPT !.pc = "sameUser.save",
                        !.user = IF p.task.completed
                                 THEN tc_removePending(us[newUserId], p.tid)
                                 ELSE tc_addPending(us[newUserId], p.tid)],
              us, tks)
       ELSE StepResult([q EXCEPT !.pc = "task.save"], us, tks)
  ELSE IF p.pc = "sameUser.save"
  THEN LET saved == savePending(us, newUserId, p.user)
           r == IF newUserId \in DOMAIN us
                THEN wrote(q, "users", newUserId, saved[newUserId]) ELSE q
       IN StepResult(
            IF p.task.completed
            THEN [r EXCEPT !.counters.removedPending = @ + 1,
                           !.pc = "task.save"]
            ELSE [r EXCEPT !.counters.addedPending = @ + 1,
                           !.pc = "task.save"],
            saved, tks)
  ELSE (* task.save() *)
       LET r == IF p.branch = "completedAssigned"
                THEN [q EXCEPT !.counters.completedAssigned = @ + 1]
                ELSE q
       IN IF p.tid \in DOMAIN tks
          THEN StepResult(sendJson(wrote(r, "tasks", p.tid, p.task), 200,
                                   "Task updated."),
                          us, [tks EXCEPT ![p.tid] = p.task])
          ELSE StepResult(sendJson(r, 200, "Task updated."), us, tks)

(* ---- exports.deleteTask ---- *)
deleteTaskBegin(id) ==
  [IdleProc EXCEPT !.op = "deleteTask", !.id = id, !.tid = id,
                   !.pc = "Task.findById"]

(* catch (err) of deleteTask *)
deleteTaskCatch(q, us, tks) ==
  StepResult(nextErr(q, "Invalid task ID", 400), us, tks)

deleteTaskCall(p, us, tks, ok) ==
  LET q == called(p) IN
  IF ~ok
  THEN deleteTaskCatch(thrown(q), us, tks)
  ELSE IF p.pc = "Task.findById"
  THEN IF p.id \notin DOMAIN tks
       THEN StepResult(nextErr(q, "Task not found", 404), us, tks)
       ELSE StepResult(
              [q EXCEPT !.task = tks[p.id], !.uid = tks[p.id].assignedUser,
                        !.pc = IF tks[p.id].assignedUser # Unassigned
                               THEN "User.findById" ELSE "task.deleteOne"],
              us, tks)
  ELSE IF p.pc = "User.findById"
  THEN IF p.uid \in DOMAIN us
       THEN StepResult([q EXCEPT !.pc = "user.save",
                                 !.user = tc_removePending(us[p.uid], p.tid)],
                       us, tks)
       ELSE StepResult([q EXCEPT !.pc = "task.deleteOne"], us, tks)
  ELSE IF p.pc = "user.save"
  THEN LET saved == savePending(us, p.uid, p.user)
           r == IF p.uid \in DOMAIN us
                THEN wrote(q, "users", p.uid, saved[p.uid]) ELSE q
       IN StepResult([r EXCEPT !.pc = "task.deleteOne"], saved, tks)
  ELSE (* task.deleteOne() *)
       IF p.tid \in DOMAIN tks
       THEN StepResult(sendJson(wrote(q, "tasks", p.tid, NoDoc), 200,
                                "Task deleted"),
                       us, Without(tks, p.tid))
       ELSE StepResult(sendJson(q, 200, "Task deleted"), us, tks)

(* ------------- stores the stepwise specifications start from ----------- *)
(* Each is the store the handlers above leave after a short sequence of     *)
(* requests served one after the other from the empty store.                *)
EmptyStore ==
  [users |-> <<>>, tasks |-> <<>>, nextUserId |-> 1, nextTaskId |-> 1]

UserReq(name, email, pendingTasks) ==
  [name |-> name, email |-> email, pendingTasks |-> pendingTasks]

TaskReq(completed, assignedUser) ==
  [name |-> "x", description |-> "d", deadline |-> "D",
   completed |-> completed, assignedUser |-> assignedUser]

thenCreateUser(st, req) ==
  LET r == createUser(st.users, st.tasks, st.nextUserId, req) IN
  [st EXCEPT !.users = r.users, !.tasks = r.tasks, !.nextUserId = @ + 1]

thenCreateTask(st, req) ==
  LET r == createTask(st.users, st.tasks, st.nextTaskId, req) IN
  [st EXCEPT !.users = r.users, !.tasks = r.tasks, !.nextTaskId = @ + 1]

thenDeleteUser(st, id) ==
  LET r == deleteUser(st.users, st.tasks, id) IN
  [st EXCEPT !.users = r.users, !.tasks = r.tasks]

Ann == thenCreateUser(EmptyStore, UserReq("ann", <<"a">>, <<>>))

AnnBob == thenCreateUser(Ann, UserReq("bob", <<"a", "+", "b">>, <<>>))

(* two Users; an incomplete Task of the first, a completed Task of the second *)
StoreOwned ==
  thenCreateTask(thenCreateTask(AnnBob, TaskReq(FALSE, 1)), TaskReq(TRUE, 2))

(* two Users; two incomplete Tasks of the first *)
StoreTwoPending ==
  thenCreateTask(thenCreateTask(AnnBob, TaskReq(FALSE, 1)), TaskReq(FALSE, 1))

(* one User with an incomplete Task; the second User has been deleted *)
StoreDeletedUser ==
  thenCreateTask(thenDeleteUser(AnnBob, 2), TaskReq(FALSE, 1))

(* one User with an incomplete Task; a completed Task of nobody *)
StoreUnowned ==
  thenCreateTask(thenCreateTask(Ann, TaskReq(FALSE, 1)),
                 TaskReq(TRUE, Unassigned))

(* a Task the second User took from the first at its creation: the first   *)
(* User's pendingTasks still lists it                                      *)
StoreStolen ==
  thenCreateUser(thenCreateTask(Ann, TaskReq(FALSE, 1)),
                 UserReq("bob", <<"a", "+", "b">>, <<1>>))

Stores ==
  {StoreOwned, StoreTwoPending, StoreDeletedUser, StoreUnowned, StoreStolen}

StepInit ==
  /\ \E st \in Stores :
       /\ users = st.users
       /\ tasks = st.tasks
       /\ nextUserId = st.nextUserId
       /\ nextTaskId = st.nextTaskId
  /\ last = Response("none", 0, "", 0, NoCounters, NoLocals)
  /\ ops = 0
  /\ procs = [s \in Slots |-> IdleProc]

InFlight(s) == procs[s].pc \notin {"idle", "done"}

Commit(s, r) ==
  /\ users' = r.users
  /\ tasks' = r.tasks
  /\ procs' = [procs EXCEPT ![s] = r.proc]
  /\ UNCHANGED <<nextUserId, nextTaskId, last, ops>>

(* the request bodies of the stepwise specifications *)
StepUserReqs ==
  [name : {"bob"}, email : { <<"a">>, <<"b">> }, pendingTasks : PendingInputs]
    \cup { [name |-> "bob", email |-> <<"b">>] }
    \cup MalformedUserReqs

(* a request arrives: the handler runs up to its first store call *)
Receive(s, userReqs, taskReqs, userIds, taskIds) ==
  /\ procs[s].pc = "idle"
  /\ \/ \E req \in userReqs :
          /\ procs' = [procs EXCEPT ![s] = createUserBegin(req, nextUserId)]
          /\ nextUserId' = nextUserId + 1
          /\ UNCHANGED nextTaskId
     \/ \E id \in userIds, req \in userReqs :
          /\ procs' = [procs EXCEPT ![s] = updateUserBegin(id, req)]
          /\ UNCHANGED <<nextUserId, nextTaskId>>
     \/ \E id \in userIds :
          /\ procs' = [procs EXCEPT ![s] = deleteUserBegin(id)]
          /\ UNCHANGED <<nextUserId, nextTaskId>>
     \/ \E req \in taskReqs :
          /\ procs' = [procs EXCEPT ![s] = createTaskBegin(req, nextTaskId)]
          /\ nextTaskId' = nextTaskId + 1
          /\ UNCHANGED nextUserId
     \/ \E id \in taskIds, req \in taskReqs :
          /\ procs' = [procs EXCEPT ![s] = updateTaskBegin(id, req)]
          /\ UNCHANGED <<nextUserId, nextTaskId>>
     \/ \E id \in taskIds :
          /\ procs' = [procs EXCEPT ![s] = deleteTaskBegin(id)]
          /\ UNCHANGED <<nextUserId, nextTaskId>>
  /\ UNCHANGED <<users, tasks, last, ops>>

CreateUserStep(s, outcomes) ==
  /\ InFlight(s) /\ procs[s].op = "createUser"
  /\ \E ok \in outcomes :
       \E r \in {createUserCall(procs[s], users, tasks, ok)} : Commit(s, r)

UpdateUserStep(s, outcomes) ==
  /\ InFlight(s) /\ procs[s].op = "updateUser"
  /\ \E ok \in outcomes :
       \E r \in {updateUserCall(procs[s], users, tasks, ok)} : Commit(s, r)

DeleteUserStep(s, outcomes) ==
  /\ InFlight(s) /\ procs[s].op = "deleteUser"
  /\ \E ok \in outcomes :
       \E r \in {deleteUserCall(procs[s], users, tasks, ok)} : Commit(s, r)

CreateTaskStep(s, outcomes) ==
  /\ InFlight(s) /\ procs[s].op = "createTask"
  /\ \E ok \in outcomes :
       \E r \in {createTaskCall(procs[s], users, tasks, ok)} : Commit(s, r)

UpdateTaskStep(s, outcomes) ==
  /\ InFlight(s) /\ procs[s].op = "updateTask"
  /\ \E ok \in outcomes :
       \E r \in {updateTaskCall(procs[s], users, tasks, ok)} : Commit(s, r)

DeleteTaskStep(s, outcomes) ==
  /\ InFlight(s) /\ procs[s].op = "deleteTask"
  /\ \E ok \in outcomes :
       \E r \in {deleteTaskCall(procs[s], users, tasks, ok)} : Commit(s, r)

(* ---- one request, every store call of which may fail ---- *)
StepReceive ==
  Receive("r1", StepUserReqs, TaskReqs, 1..MaxUsers, 1..MaxTasks)

StepCreateUser == CreateUserStep("r1", BOOLEAN)
StepUpdateUser == UpdateUserStep("r1", BOOLEAN)
StepDeleteUser == DeleteUserStep("r1", BOOLEAN)
StepCreateTask == CreateTaskStep("r1", BOOLEAN)
StepUpdateTask == UpdateTaskStep("r1", BOOLEAN)
StepDeleteTask == DeleteTaskStep("r1", BOOLEAN)

StepNext ==
  \/ StepReceive
  \/ StepCreateUser
  \/ StepUpdateUser
  \/ StepDeleteUser
  \/ StepCreateTask
  \/ StepUpdateTask
  \/ StepDeleteTask

StepSpec == StepInit /\ [][StepNext]_vars

(* every store call a request is waiting for is answered or fails *)
FairStepSpec == StepInit /\ [][StepNext]_vars /\ WF_vars(StepNext)

(* ---- two requests in flight together ---- *)
(* The requests of the two races the design names: CreateUser, CreateTask  *)
(* and DeleteUser, over the ids the store has issued.  Both requests are   *)
(* received before either makes a store call (receiving makes none).  The  *)
(* store answers every call; only save() of a User that has been deleted   *)
(* in the meantime may throw instead of changing nothing.                  *)
RaceUserReqs ==
  [name : {"bob"}, email : { <<"b">>, <<"B">>, <<"A">> },
   pendingTasks : { <<>>, <<1>> }]

IssuedUserIds ==
  1..(nextUserId - 1
        - Cardinality({ t \in Slots : procs[t].op = "createUser" }))

RaceTaskReqs ==
  { TaskReq(completed, u) :
      completed \in BOOLEAN, u \in {Unassigned} \cup IssuedUserIds }

RaceReceive(s) ==
  /\ procs[s].pc = "idle"
  /\ \A t \in Slots : procs[t].calls = 0
  /\ \/ \E req \in RaceUserReqs :
          /\ procs' = [procs EXCEPT ![s] = createUserBegin(req, nextUserId)]
          /\ nextUserId' = nextUserId + 1
          /\ UNCHANGED nextTaskId
     \/ \E id \in IssuedUserIds :
          /\ procs' = [procs EXCEPT ![s] = deleteUserBegin(id)]
          /\ UNCHANGED <<nextUserId, nextTaskId>>
     \/ \E req \in RaceTaskReqs :
          /\ procs' = [procs EXCEPT ![s] = createTaskBegin(req, nextTaskId)]
          /\ nextTaskId' = nextTaskId + 1
          /\ UNCHANGED nextUserId
  /\ UNCHANGED <<users, tasks, last, ops>>

savesDeletedUser(p) ==
  p.pc \in {"assignedUser.save", "user.save"} /\ p.uid \notin DOMAIN users

RaceOutcomes(s) ==
  IF savesDeletedUser(procs[s]) THEN BOOLEAN ELSE {TRUE}

RaceCreateUser == \E s \in Slots : CreateUserStep(s, RaceOutcomes(s))
RaceDeleteUser == \E s \in Slots : DeleteUserStep(s, RaceOutcomes(s))
RaceCreateTask == \E s \in Slots : CreateTaskStep(s, RaceOutcomes(s))

RaceNext ==
  \/ \E s \in Slots : RaceReceive(s)
  \/ RaceCreateUser
  \/ RaceDeleteUser
  \/ RaceCreateTask

RaceSpec == StepInit /\ [][RaceNext]_vars

(* ---- two task-side requests on one User ---- *)
(* CreateTask and DeleteTask in flight together.  createTask pushes the    *)
(* new id onto the stored pendingTasks; deleteTask replaces pendingTasks   *)
(* by the array it filtered from the User it read.  models/user.js is not  *)
(* among the sources: whether the store rejects a replacement computed     *)
(* from a User that has been saved in the meantime is the schema's choice, *)
(* so such a save may be applied (the store of the design, save(entity))   *)
(* or throw.                                                               *)
IssuedTaskIds ==
  1..(nextTaskId - 1
        - Cardinality({ t \in Slots : procs[t].op = "createTask" }))

PendingRaceReceive(s) ==
  /\ procs[s].pc = "idle"
  /\ \A t \in Slots : procs[t].calls = 0
  /\ \/ \E req \in RaceTaskReqs :
          /\ procs' = [procs EXCEPT ![s] = createTaskBegin(req, nextTaskId)]
          /\ nextTaskId' = nextTaskId + 1
     \/ \E id \in IssuedTaskIds :
          /\ procs' = [procs EXCEPT ![s] = deleteTaskBegin(id)]
          /\ UNCHANGED nextTaskId
  /\ UNCHANGED <<users, tasks, nextUserId, last, ops>>

(* user.save() of deleteTask for a User another request has saved since   *)
(* deleteTask read it                                                      *)
savesStaleUser(p) ==
  /\ p.op = "deleteTask" /\ p.pc = "user.save"
  /\ p.uid \in DOMAIN users
  /\ tc_removePending(users[p.uid], p.tid).pendingTasks # p.user.pendingTasks

PendingRaceOutcomes(s) ==
  IF savesDeletedUser(procs[s]) \/ savesStaleUser(procs[s])
  THEN BOOLEAN ELSE {TRUE}

PendingRaceCreateTask ==
  \E s \in Slots : CreateTaskStep(s, PendingRaceOutcomes(s))

PendingRaceDeleteTask ==
  \E s \in Slots : DeleteTaskStep(s, PendingRaceOutcomes(s))

PendingRaceNext ==
  \/ \E s \in Slots : PendingRaceReceive(s)
  \/ PendingRaceCreateTask
  \/ PendingRaceDeleteTask

PendingRaceSpec == StepInit /\ [][PendingRaceNext]_vars

(* ======================= src/unnamed/part_000 ========================== *)
(* The earlier task controller kept in the repository.  Its updateTask     *)
(* takes the old owner's pending entry away before it looks at the         *)
(* requested assignedUser.                                                 *)

(* the body of PUT /tasks/:id as part_000 reads it *)
Part000Reqs ==
  { [name |-> r.name, description |-> r.description, deadline |-> r.deadline,
     completed |-> r.completed, assignedUser |-> r.assignedUser,
     assignedUserName |-> n] :
      r \in TaskReqs, n \in {""} \cup UserNames }

(* lines 117-123: oldUser.pendingTasks.filter(...); await oldUser.save() *)
part000_dropFromOldUser(us, tks, id) ==
  LET oldUserId == tks[id].assignedUser IN
  IF oldUserId # Unassigned /\ oldUserId \in DOMAIN us
  THEN [us EXCEPT ![oldUserId].pendingTasks =
                     SelectSeq(@, LAMBDA t : t # id)]
  ELSE us

(* exports.updateTask of part_000 *)
part000_updateTask(us, tks, id, req) ==
  IF req.name = "" \/ req.deadline = ""
  THEN [users |-> us, tasks |-> tks,
        res |-> ErrorResponse("part000.updateTask",
                              "Name and Deadline are required", 400)]
  ELSE IF id \notin DOMAIN tks
  THEN [users |-> us, tasks |-> tks,
        res |-> ErrorResponse("part000.updateTask", "Task not found", 404)]
  ELSE
    LET dropped == part000_dropFromOldUser(us, tks, id)
        completed == req.completed
        assignedUser == req.assignedUser
    IN
    IF assignedUser = Unassigned
    THEN [users |-> dropped,
          tasks |-> [tks EXCEPT ![id] =
                       [name |-> req.name, description |-> req.description,
                        deadline |-> req.deadline, completed |-> completed,
                        assignedUser |-> Unassigned,
                        assignedUserName |-> "unassigned"]],
          res |-> Response("part000.updateTask", 200, "Task updated", id,
                           NoCounters, NoLocals)]
    ELSE IF assignedUser \notin DOMAIN dropped
    THEN [users |-> dropped, tasks |-> tks,
          res |-> ErrorResponse("part000.updateTask",
                                "Invalid assigned user ID", 400)]
    ELSE
      LET user == dropped[assignedUser] IN
      IF req.assignedUserName # "" /\ req.assignedUserName # user.name
      THEN [users |-> dropped, tasks |-> tks,
            res |-> Response("part000.updateTask", 400,
                             "assignedUserName does not match the user's actual name",
                             0, NoCounters, [actualName |-> user.name])]
      ELSE
        [users |-> IF ~completed /\ ~Contains(user.pendingTasks, id)
                   THEN [dropped EXCEPT ![assignedUser].pendingTasks =
                                          Append(@, id)]
                   ELSE dropped,
         tasks |-> [tks EXCEPT ![id] =
                      [name |-> req.name, description |-> req.description,
                       deadline |-> req.deadline, completed |-> completed,
                       assignedUser |-> assignedUser,
                       assignedUserName |-> user.name]],
         res |-> Response("part000.updateTask", 200, "Task updated", id,
                          NoCounters, NoLocals)]

(* PUT /tasks/:id served by part_000, on a store the handlers have built *)
Part000UpdateTask ==
  /\ ops < MaxOps
  /\ \E id \in 1..MaxTasks, req \in Part000Reqs :
       \E r \in {part000_updateTask(users, tasks, id, req)} : Apply(r)
  /\ UNCHANGED <<nextUserId, nextTaskId>>

Part000Spec == StepInit /\ [][Part000UpdateTask]_vars

(* ================================ claims =============================== *)

PendingSet(user) == { user.pendingTasks[i] : i \in 1..Len(user.pendingTasks) }

Succeeded == last.status \in {200, 201}

(* C1: after every completed operation, for every stored User u the set of *)
(* ids in u.pendingTasks equals exactly the set of stored Tasks assigned   *)
(* to u that are not completed.                                            *)
MirrorInvariant ==
  \A u \in DOMAIN users :
    PendingSet(users[u]) =
      { t \in DOMAIN tasks : tasks[t].assignedUser = u /\ ~tasks[t].completed }

(* C2: after every completed operation, no stored User's pendingTasks      *)
(* contains the id of a stored Task whose completed flag is true.          *)
CompletedNeverPending ==
  \A u \in DOMAIN users :
    \A t \in PendingSet(users[u]) :
      t \in DOMAIN tasks => ~tasks[t].completed

(* C3: no single operation takes a stored completed Task whose             *)
(* assignedUser is a non-empty id A to a non-empty assignedUser other      *)
(* than A.                                                                 *)
CompletedNeverReassigned ==
  [][\A t \in (DOMAIN tasks) \cap (DOMAIN tasks') :
       (/\ tasks[t].completed
        /\ tasks[t].assignedUser # Unassigned
        /\ tasks'[t].assignedUser # Unassigned)
         => tasks'[t].assignedUser = tasks[t].assignedUser]_vars

(* C4 as stated: after every completed operation, every stored Task's      *)
(* assignedUser is empty or the id of a User that currently exists.        *)
AssignedUserExists ==
  \A t \in DOMAIN tasks :
    tasks[t].assignedUser = Unassigned \/ tasks[t].assignedUser \in DOMAIN users

(* C4 as amended: after every completed operation, every stored Task that  *)
(* is not completed has an assignedUser that is empty or the id of an      *)
(* existing User; only a completed Task may keep the id of a User that     *)
(* was deleted.                                                            *)
IncompleteAssignedUserExists ==
  \A t \in DOMAIN tasks :
    \/ tasks[t].assignedUser = Unassigned
    \/ tasks[t].assignedUser \in DOMAIN users
    \/ /\ tasks[t].completed
       /\ tasks[t].assignedUser \in 1..(nextUserId - 1)

DanglingCompletedAfterDelete ==
  /\ last.op = "deleteUser" /\ last.status = 200
  /\ \E t \in DOMAIN tasks :
       /\ tasks[t].completed /\ tasks[t].assignedUser = last.id
       /\ last.id \notin DOMAIN users
  /\ last.counters.unassigned >= 1

ValidTaskReq(req) == req.name # "" /\ req.deadline # ""

(* the request bodies the claims about one Task request range over: those  *)
(* of TaskReqs and bodies that change every field of a stored Task         *)
AnyTaskReqs ==
  [name : TaskNames \cup {"y"}, description : Descriptions \cup {""},
   deadline : Deadlines \cup {"E"}, completed : BOOLEAN,
   assignedUser : UserIdInputs]
    \cup MalformedTaskReqs

(* C5: for a stored Task with completed=true and assignedUser=A, an        *)
(* UpdateTask request with completed=true and assignedUser=B (B an         *)
(* existing User, B # A) succeeds, leaves the Task's assignedUser and      *)
(* assignedUserName as they were, updates only name, description, deadline *)
(* and completed, reports completedNotReassigned=1 with every other        *)
(* counter 0, and leaves every User record unchanged.                      *)
CompletedTaskGuard ==
  \A t \in DOMAIN tasks : \A req \in AnyTaskReqs :
    (/\ ValidTaskReq(req)
     /\ tasks[t].completed /\ tasks[t].assignedUser # Unassigned
     /\ req.completed
     /\ req.assignedUser \in DOMAIN users
     /\ req.assignedUser # tasks[t].assignedUser)
      => LET r == updateTask(users, tasks, t, req) IN
         /\ r.res.status = 200
         /\ r.tasks = [tasks EXCEPT ![t].name = req.name,
                                    ![t].description = req.description,
                                    ![t].deadline = req.deadline,
                                    ![t].completed = TRUE]
         /\ r.tasks[t].assignedUser = tasks[t].assignedUser
         /\ r.tasks[t].assignedUserName = tasks[t].assignedUserName
         /\ r.res.counters = [TaskCounters EXCEPT !.completedNotReassigned = 1]
         /\ r.users = users

GuardRejectedReassignment ==
  /\ last.op = "updateTask" /\ last.status = 200
  /\ last.locals.oldCompleted /\ last.locals.oldUserId # Unassigned
  /\ last.locals.completed
  /\ last.locals.newUserId \in DOMAIN users
  /\ last.locals.newUserId # last.locals.oldUserId
  /\ last.locals.oldUserId \in DOMAIN users
  /\ last.counters.completedNotReassigned = 1

(* C6: a successful CreateTask with completed=true and assignedUser=U      *)
(* stores a Task with assignedUser=U.id and assignedUserName=U.name and    *)
(* leaves U.pendingTasks unchanged; with completed=false and               *)
(* assignedUser=U it ends with the new Task id in U.pendingTasks; with no  *)
(* assignedUser the Task is stored unassigned, named "unassigned", and no  *)
(* User record is written.                                                 *)
CreateTaskPendingRule ==
  \A req \in AnyTaskReqs :
    LET r == createTask(users, tasks, nextTaskId, req)
        U == req.assignedUser
    IN r.res.status = 201 =>
         /\ nextTaskId \in DOMAIN r.tasks
         /\ Without(r.tasks, nextTaskId) = tasks
         /\ r.tasks[nextTaskId].name = req.name
         /\ r.tasks[nextTaskId].completed = req.completed
         /\ (U # Unassigned /\ req.completed) =>
               /\ r.tasks[nextTaskId].assignedUser = U
               /\ r.tasks[nextTaskId].assignedUserName = users[U].name
               /\ r.users = users
               /\ ~Contains(r.users[U].pendingTasks, nextTaskId)
         /\ (U # Unassigned /\ ~req.completed) =>
               /\ r.tasks[nextTaskId].assignedUser = U
               /\ Contains(r.users[U].pendingTasks, nextTaskId)
         /\ (U = Unassigned) =>
               /\ r.tasks[nextTaskId].assignedUser = Unassigned
               /\ r.tasks[nextTaskId].assignedUserName = "unassigned"
               /\ r.users = users

CreatedCompletedAssignedTask ==
  /\ last.op = "createTask" /\ last.status = 201
  /\ last.locals.completed /\ last.locals.assignedUserId # Unassigned
  /\ tasks[last.id].assignedUser = last.locals.assignedUserId
  /\ users[last.locals.assignedUserId].pendingTasks # <<>>

(* C7: a successful DeleteUser(U) clears the assignment of exactly the     *)
(* stored Tasks with assignedUser=U.id and completed=false, leaves every   *)
(* completed Task of U and every other Task and User unchanged, removes U  *)
(* from the User store and reports an unassigned count equal to the number *)
(* of Tasks it cleared.                                                    *)
DeleteUserCascade ==
  \A U \in DOMAIN users :
    LET r == deleteUser(users, tasks, U)
        cleared == { t \in DOMAIN tasks :
                       tasks[t].assignedUser = U /\ ~tasks[t].completed }
    IN /\ r.res.status = 200
       /\ DOMAIN r.tasks = DOMAIN tasks
       /\ \A t \in cleared :
            r.tasks[t] = [tasks[t] EXCEPT !.assignedUser = Unassigned,
                                          !.assignedUserName = "unassigned"]
       /\ \A t \in (DOMAIN tasks) \ cleared : r.tasks[t] = tasks[t]
       /\ r.users = Without(users, U)
       /\ r.res.counters.unassigned = Cardinality(cleared)

DeletedUserWithBothKinds ==
  /\ last.op = "deleteUser" /\ last.status = 200
  /\ last.counters.unassigned = 1
  /\ \E t \in DOMAIN tasks :
       tasks[t].completed /\ tasks[t].assignedUser = last.id
  /\ \E t \in DOMAIN tasks :
       ~tasks[t].completed /\ tasks[t].assignedUser = Unassigned

(* C8: for a stored incomplete Task T assigned to existing User U1, an     *)
(* UpdateTask request with completed=false and assignedUser=U2 (existing,  *)
(* U2 # U1) ends with T.assignedUser=U2.id, T.assignedUserName=U2.name,    *)
(* T's id absent from U1.pendingTasks and present exactly once in          *)
(* U2.pendingTasks, and counters unassigned=1 and reassigned=1.            *)
ReassignmentSymmetry ==
  \A T \in DOMAIN tasks : \A req \in AnyTaskReqs :
    LET U1 == tasks[T].assignedUser
        U2 == req.assignedUser
    IN (/\ ValidTaskReq(req)
        /\ ~tasks[T].completed /\ U1 \in DOMAIN users
        /\ ~req.completed /\ U2 \in DOMAIN users /\ U2 # U1)
         => LET r == updateTask(users, tasks, T, req) IN
            /\ r.res.status = 200
            /\ r.tasks[T].assignedUser = U2
            /\ r.tasks[T].assignedUserName = users[U2].name
            /\ ~Contains(r.users[U1].pendingTasks, T)
            /\ Occurrences(r.users[U2].pendingTasks, T) = 1
            /\ r.res.counters.unassigned = 1
            /\ r.res.counters.reassigned = 1

ReassignedIncompleteTask ==
  /\ last.op = "updateTask" /\ last.status = 200
  /\ ~last.locals.oldCompleted /\ last.locals.oldUserId \in DOMAIN users
  /\ ~last.locals.completed /\ last.locals.newUserId \in DOMAIN users
  /\ last.locals.newUserId # last.locals.oldUserId
  /\ last.counters.reassigned = 1 /\ last.counters.unassigned = 1
  /\ Contains(users[last.locals.newUserId].pendingTasks, last.id)

EqualIgnoreCase(e1, e2) ==
  /\ Len(e1) = Len(e2)
  /\ \A i \in 1..Len(e1) : Canonicalize(e1[i]) = Canonicalize(e2[i])

(* C9: after every completed operation no two stored Users have emails     *)
(* that are equal under case-insensitive comparison, and a CreateUser      *)
(* whose email equals (case-insensitively) that of a stored User is        *)
(* rejected with "Email already exists".                                   *)
EmailUnique ==
  /\ \A u, v \in DOMAIN users :
       u # v => ~EqualIgnoreCase(users[u].email, users[v].email)
  /\ \A req \in UserReqs :
       (/\ req.name # ""
        /\ \E u \in DOMAIN users : EqualIgnoreCase(req.email, users[u].email))
         => createUser(users, tasks, nextUserId, req).res.message
              = "Email already exists"

(* C10: whenever an operation ends with a 400 or 404 error (missing        *)
(* name/email/deadline, unresolvable assignedUser, duplicate email,        *)
(* unknown User/Task id), the User store and the Task store are identical  *)
(* to their contents before the request.                                   *)
RejectedMutatesNothing ==
  [][last'.status \in {400, 404} => (users' = users /\ tasks' = tasks)]_vars

RejectedInNonEmptyStore ==
  /\ last.op = "updateTask" /\ last.status = 400
  /\ last.message = "Invalid assigned user ID"
  /\ \E t \in DOMAIN tasks :
       /\ tasks[t].assignedUser \in DOMAIN users
       /\ Contains(users[tasks[t].assignedUser].pendingTasks, t)

(* a CreateTask(completed=false, assignedUser=U) in slot c and a           *)
(* DeleteUser(U) in slot d have both answered with success                 *)
BothSucceeded(c, d) ==
  /\ procs[c].op = "createTask" /\ procs[c].pc = "done"
  /\ procs[c].status = 201
  /\ ~procs[c].req.completed /\ procs[c].req.assignedUser # Unassigned
  /\ procs[d].op = "deleteUser" /\ procs[d].pc = "done"
  /\ procs[d].status = 200
  /\ procs[d].id = procs[c].req.assignedUser

(* C11: when a CreateTask(completed=false, assignedUser=U) and a           *)
(* DeleteUser(U) interleave store call by store call and both finish       *)
(* without being rejected, U is gone and the new Task is stored incomplete *)
(* in one of two ways: DeleteUser's Task.find saw it and cleared its       *)
(* assignment, or Task.find ran before the Task was saved and the Task     *)
(* keeps assignedUser = U, the deleted User.  The second outcome is        *)
(* reached (OrphanAfterRace).                                              *)
CreateTaskDeleteUserRace ==
  \A c, d \in Slots :
    BothSucceeded(c, d) =>
      LET U == procs[d].id
          T == procs[c].tid
      IN /\ U \notin DOMAIN users
         /\ T \in DOMAIN tasks /\ ~tasks[T].completed
         /\ \/ /\ Contains(procs[d].list, T)
               /\ tasks[T].assignedUser = Unassigned
               /\ tasks[T].assignedUserName = "unassigned"
            \/ /\ ~Contains(procs[d].list, T)
               /\ tasks[T].assignedUser = U

OrphanAfterRace ==
  \E c, d \in Slots :
    /\ BothSucceeded(c, d)
    /\ procs[d].id \notin DOMAIN users
    /\ ~tasks[procs[c].tid].completed
    /\ tasks[procs[c].tid].assignedUser = procs[d].id

OthersOf(seq, taskId) == SelectSeq(seq, LAMBDA id : id # taskId)

(* what C12 says of one add / remove pair, for one User record and one id *)
IdempotentPair(add(_, _), remove(_, _), user, taskId) ==
  LET once == add(user, taskId)
      gone == remove(user, taskId)
  IN /\ add(once, taskId) = once
     /\ Occurrences(once.pendingTasks, taskId) = 1
     /\ OthersOf(once.pendingTasks, taskId) = OthersOf(user.pendingTasks, taskId)
     /\ Len(once.pendingTasks) <= Len(user.pendingTasks) + 1
     /\ Contains(user.pendingTasks, taskId) => once = user
     /\ remove(gone, taskId) = gone
     /\ ~Contains(gone.pendingTasks, taskId)
     /\ gone.pendingTasks = OthersOf(user.pendingTasks, taskId)
     /\ ~Contains(user.pendingTasks, taskId) => gone = user
     /\ once.name = user.name /\ once.email = user.email
     /\ gone.name = user.name /\ gone.email = user.email

(* C12: for every stored User record and every task id, addPending twice   *)
(* gives the same pendingTasks as addPending once (the id exactly once,    *)
(* the other ids in their order), removePending twice the same as once     *)
(* (the id absent, the other ids in their order), addPending of an id      *)
(* already present and removePending of an id not present change nothing;  *)
(* for the helpers of both controllers.                                    *)
PendingHelpersIdempotent ==
  \A u \in DOMAIN users : \A taskId \in 1..nextTaskId :
    /\ IdempotentPair(addPending, removePending, users[u], taskId)
    /\ IdempotentPair(tc_addPending, tc_removePending, users[u], taskId)

SecondIdAppended ==
  /\ last.op = "createTask" /\ last.status = 201
  /\ \E u \in DOMAIN users :
       /\ Len(users[u].pendingTasks) = MaxTasks
       /\ users[u].pendingTasks[Len(users[u].pendingTasks)] = last.id

(* the ids of a list, each once, in order of first occurrence *)
RECURSIVE FirstOccurrences(_)
FirstOccurrences(seq) ==
  IF seq = <<>> THEN <<>>
  ELSE LET front == FirstOccurrences(SubSeq(seq, 1, Len(seq) - 1))
           x == seq[Len(seq)]
       IN IF Contains(front, x) THEN front ELSE Append(front, x)

(* the UpdateUser bodies C13 ranges over: every list of requested ids, and *)
(* a body without pendingTasks                                             *)
ReplaceReqs ==
  [name : {"bob"}, email : { <<"A">>, <<"a", "+", "b">> },
   pendingTasks : PendingInputs]
    \cup { [name |-> "bob", email |-> <<"A">>] }

(* C13: after a successful UpdateUser(U, name, email, pendingTaskIds),     *)
(* (a) every Task that was in U's previous pendingTasks, is not among the  *)
(* requested ids and was still assigned to U is unassigned and named       *)
(* "unassigned"; (b) U.pendingTasks is exactly the distinct requested ids  *)
(* that resolve to a stored Task that is not completed, in order of first  *)
(* occurrence, each of those Tasks assigned to U; name and email are       *)
(* replaced; a body without pendingTaskIds is treated as the empty list.   *)
(* Stated of every UpdateUser the specification can take next.            *)
UpdateUserStrictReplace ==
  [](ops < MaxOps =>
      \A U \in DOMAIN users : \A req \in ReplaceReqs :
        LET r == updateUser(users, tasks, U, req)
            requested == IF "pendingTasks" \in DOMAIN req
                         THEN req.pendingTasks ELSE <<>>
            dropped == { T \in PendingSet(users[U]) \cap DOMAIN tasks :
                           ~Contains(requested, T) /\ tasks[T].assignedUser = U }
            kept == FirstOccurrences(
                      SelectSeq(requested,
                                LAMBDA T : T \in DOMAIN tasks
                                           /\ ~tasks[T].completed))
        IN r.res.status = 200 =>
             /\ \A T \in dropped :
                  /\ r.tasks[T].assignedUser = Unassigned
                  /\ r.tasks[T].assignedUserName = "unassigned"
             /\ r.users[U].pendingTasks = kept
             /\ \A i \in 1..Len(kept) : r.tasks[kept[i]].assignedUser = U
             /\ r.users[U].name = req.name /\ r.users[U].email = req.email
             /\ DOMAIN r.tasks = DOMAIN tasks /\ DOMAIN r.users = DOMAIN users)

ReplacedPendingSet ==
  /\ last.op = "updateUser" /\ last.status = 200
  /\ last.locals.oldPending # <<>>
  /\ last.counters.unassigned = 1
  /\ users[last.id].pendingTasks # <<>>
  /\ \A i \in 1..Len(last.locals.oldPending) :
       ~Contains(users[last.id].pendingTasks, last.locals.oldPending[i])

(* the write the store accepted last for the document of writes[i] *)
LastWrite(writes, i) ==
  \A j \in (i + 1)..Len(writes) :
    writes[j].coll # writes[i].coll \/ writes[j].id # writes[i].id

(* every write the request completed is what the store holds *)
WritesRemain(p, us, tks) ==
  \A i \in 1..Len(p.writes) :
    LastWrite(p.writes, i) =>
      LET w == p.writes[i]
          store == IF w.coll = "users" THEN us ELSE tks
      IN IF w.doc = NoDoc THEN w.id \notin DOMAIN store
         ELSE w.id \in DOMAIN store /\ store[w.id] = w.doc

(* C14: when a store read or write inside an operation fails, the failing  *)
(* step and everything after it write nothing to either store, the         *)
(* operation answers with an error (next(err), once, and no res.json),     *)
(* and every write it had completed is still what the store holds; a       *)
(* CreateUser that fails after assigning Tasks leaves the new User stored  *)
(* with an empty pendingTasks and those Tasks assigned to it.              *)
BestEffortPartialFailure ==
  [][\A s \in Slots :
       procs'[s].threw =>
         /\ users' = users /\ tasks' = tasks
         /\ procs'[s].pc = "done"
         /\ procs'[s].nexted = 1 /\ procs'[s].sent = 0
         /\ procs'[s].status \in {400, 404, 500}
         /\ WritesRemain(procs'[s], users', tasks')
         /\ (procs'[s].op = "createUser" /\ procs'[s].writes # <<>>) =>
              /\ users'[procs'[s].uid].pendingTasks = <<>>
              /\ \A i \in 1..Len(procs'[s].writes) :
                   procs'[s].writes[i].coll = "tasks" =>
                     tasks'[procs'[s].writes[i].id].assignedUser
                       = procs'[s].uid]_vars

CreateUserFailedAfterAssigning ==
  \E s \in Slots :
    /\ procs[s].op = "createUser" /\ procs[s].threw
    /\ procs[s].status = 500
    /\ Len(procs[s].writes) >= 2
    /\ users[procs[s].uid].pendingTasks = <<>>
    /\ \E t \in DOMAIN tasks : tasks[t].assignedUser = procs[s].uid

(* C15: after every operation, every stored Task with empty assignedUser  *)
(* is named "unassigned", and every stored Task with assignedUser = u      *)
(* carries the name User u had when the Task's assignedUser was last       *)
(* written: an operation either leaves the Task's assignedUser and         *)
(* assignedUserName as they were, or writes the name u has at the end of   *)
(* that operation; a later rename of u does not reach the Task.            *)
NameCacheAsOfAssignment ==
  [][\A t \in DOMAIN tasks' :
       LET u == tasks'[t].assignedUser IN
       IF u = Unassigned
       THEN tasks'[t].assignedUserName = "unassigned"
       ELSE \/ /\ t \in DOMAIN tasks
               /\ tasks[t].assignedUser = u
               /\ tasks'[t].assignedUserName = tasks[t].assignedUserName
            \/ /\ u \in DOMAIN users'
               /\ tasks'[t].assignedUserName = users'[u].name]_vars

StaleNameAfterRename ==
  /\ last.op = "updateUser" /\ last.status = 200
  /\ \E t \in DOMAIN tasks :
       /\ tasks[t].assignedUser = last.id
       /\ Contains(users[last.id].pendingTasks, t)
       /\ tasks[t].assignedUserName # users[last.id].name

(* the requests whose reassignments are followed *)
StealReqs ==
  [name : {"bob"}, email : { <<"a", "+", "b">> }, pendingTasks : PendingInputs]

(* the requested Tasks that are not completed and assigned to another User *)
AssignedElsewhere(U, req) ==
  { T \in DOMAIN tasks : /\ Contains(incomingOf(req), T)
                         /\ ~tasks[T].completed
                         /\ tasks[T].assignedUser \notin {Unassigned, U} }

(* what r, the result of createUser or updateUser for U, did with them *)
TakenOneSided(r, U, req) ==
  /\ \A T \in AssignedElsewhere(U, req) :
       LET V == tasks[T].assignedUser IN
       /\ r.tasks[T].assignedUser = U
       /\ r.tasks[T].assignedUserName = req.name
       /\ Contains(r.users[U].pendingTasks, T)
       /\ V \in DOMAIN users => r.users[V] = users[V]
  /\ r.res.counters.reassigned = Cardinality(AssignedElsewhere(U, req))

CountedOnce(r, U, req) ==
  LET distinct == { incomingOf(req)[i] : i \in 1..Len(incomingOf(req)) } IN
  /\ r.res.counters.invalid = Cardinality(distinct \ DOMAIN tasks)
  /\ r.res.counters.completedNotReassigned =
       Cardinality({ T \in distinct \cap DOMAIN tasks :
                       /\ tasks[T].completed
                       /\ tasks[T].assignedUser \notin {Unassigned, U} })

(* C17: in CreateUser and UpdateUser a task id occurring several times in  *)
(* pendingTaskIds is classified and counted once: invalid is the number of *)
(* distinct unknown ids and completedNotReassigned the number of distinct  *)
(* completed Tasks owned by another User.                                  *)
RequestedIdsCountedOnce ==
  \A req \in StealReqs :
    /\ LET r == createUser(users, tasks, nextUserId, req)
       IN r.res.status = 201 => CountedOnce(r, nextUserId, req)
    /\ \A U \in DOMAIN users :
         LET r == updateUser(users, tasks, U, req)
         IN r.res.status = 200 => CountedOnce(r, U, req)

(* the place of the first x in seq *)
FirstIndex(seq, x) ==
  CHOOSE i \in 1..Len(seq) : seq[i] = x /\ \A j \in 1..(i - 1) : seq[j] # x

(* the Task writes of an updateUser: clearing a dropped Task, or assigning *)
(* a requested one to the User                                             *)
Clears(p, w) ==
  /\ w.coll = "tasks" /\ w.doc.assignedUser = Unassigned
  /\ Contains(p.list, w.id) /\ ~Contains(p.incoming, w.id)

Assigns(p, w) ==
  /\ w.coll = "tasks" /\ w.doc.assignedUser = p.uid
  /\ Contains(p.incoming, w.id)

(* C18: within one UpdateUser request every Task write clearing a dropped  *)
(* Task precedes every Task write assigning a requested Task, the clearing *)
(* writes follow the order of the old pendingTasks and the assigning ones  *)
(* the order of the request, and the one write of a User record is that of *)
(* the target, after all Task writes, and ends the request.                *)
UpdateUserWriteOrder ==
  \A s \in Slots :
    LET p == procs[s]
        w == p.writes
    IN p.op = "updateUser" =>
         /\ \A i \in 1..Len(w) :
              \/ Clears(p, w[i])
              \/ Assigns(p, w[i])
              \/ /\ w[i].coll = "users" /\ w[i].id = p.uid
                 /\ i = Len(w) /\ p.pc = "done" /\ p.status = 200
                 /\ w[i].doc.name = p.req.name
                 /\ w[i].doc.email = p.req.email
         /\ \A i, j \in 1..Len(w) :
              i < j =>
                /\ ~(Assigns(p, w[i]) /\ Clears(p, w[j]))
                /\ Clears(p, w[i]) /\ Clears(p, w[j])
                     => FirstIndex(p.list, w[i].id) < FirstIndex(p.list, w[j].id)
                /\ Assigns(p, w[i]) /\ Assigns(p, w[j])
                     => FirstIndex(p.incoming, w[i].id)
                          < FirstIndex(p.incoming, w[j].id)
         /\ p.pc = "done" /\ p.status = 200 =>
              /\ Len(w) >= 1
              /\ w[Len(w)] = [coll |-> "users", id |-> p.uid,
                              doc |-> users[p.uid]]

ClearedThenAssignedThenSaved ==
  \E s \in Slots :
    LET p == procs[s]
        w == p.writes
    IN /\ p.op = "updateUser" /\ p.pc = "done" /\ p.status = 200
       /\ Len(w) = 3
       /\ Clears(p, w[1]) /\ Assigns(p, w[2]) /\ w[3].coll = "users"

(* the request of slot s is a createUser that has saved its User *)
SavedNewUser(s, u) ==
  /\ procs[s].op = "createUser" /\ procs[s].uid = u
  /\ Len(procs[s].writes) >= 1
  /\ procs[s].writes[1].coll = "users" /\ procs[s].writes[1].id = u

(* C19: CreateUser looks the email up and saves the User in two store      *)
(* calls.  Two stored Users have the same email (case-insensitively) only  *)
(* when both were saved by two CreateUser requests in flight together: a   *)
(* request never saves a User whose email a User stored before the         *)
(* requests arrived already has.  The interleaving in which both lookups   *)
(* find nothing and both saves succeed is reached.                         *)
EmailCheckThenActRace ==
  \A u, v \in DOMAIN users :
    u < v /\ EqualIgnoreCase(users[u].email, users[v].email) =>
      \E s, t \in Slots :
        /\ s # t
        /\ SavedNewUser(s, u) /\ SavedNewUser(t, v)
        /\ procs[s].status \in {0, 201} /\ procs[t].status \in {0, 201}

TwoUsersSameEmail ==
  \E s, t \in Slots :
    /\ s # t
    /\ procs[s].op = "createUser" /\ procs[t].op = "createUser"
    /\ procs[s].pc = "done" /\ procs[s].status = 201 /\ procs[s].sent = 1
    /\ procs[t].pc = "done" /\ procs[t].status = 201 /\ procs[t].sent = 1
    /\ procs[s].calls >= 2 /\ procs[t].calls >= 2
    /\ procs[s].req.email = procs[t].req.email
    /\ procs[s].uid \in DOMAIN users /\ procs[t].uid \in DOMAIN users
    /\ users[procs[s].uid].email = procs[s].req.email
    /\ users[procs[t].uid].email = procs[s].req.email

(* the most store calls the request of p makes: the calls outside the     *)
(* loops, two per element of oldPending and of the requested ids (a       *)
(* findById and a save), one per Task that deleteUser's Task.find returned *)
StoreCallBound(p) ==
  IF p.op = "createUser" THEN 3 + 2 * Len(incomingOf(p.req))
  ELSE IF p.op = "updateUser"
  THEN 3 + 2 * Len(p.list) + 2 * Len(incomingOf(p.req))
  ELSE IF p.op = "deleteUser" THEN 3 + Len(p.list)
  ELSE IF p.op = "createTask" THEN 3
  ELSE IF p.op = "updateTask" THEN 6
  ELSE IF p.op = "deleteTask" THEN 4
  ELSE 0

(* C20: provided every store call is answered or fails, a request of any   *)
(* of the six operations makes a bounded number of store calls (bounded by *)
(* the lengths of oldPending and of the requested ids, for deleteUser by   *)
(* the number of Tasks found), each step being a new call and never a      *)
(* repeated one, and ends with exactly one outcome: one response or one    *)
(* error handed to the error handler, never both, never neither, and       *)
(* nothing after it.                                                       *)
TerminatesWithOneOutcome ==
  /\ [](\A s \in Slots :
          LET p == procs[s] IN
          /\ p.calls <= StoreCallBound(p)
          /\ p.pc = "done" => p.sent + p.nexted = 1
          /\ p.pc # "done" => p.sent = 0 /\ p.nexted = 0)
  /\ [][\A s \in Slots :
          /\ procs[s].pc = "done" => procs'[s] = procs[s]
          /\ InFlight(s) /\ procs'[s] # procs[s]
               => procs'[s].calls = procs[s].calls + 1]_vars
  /\ \A s \in Slots : InFlight(s) ~> procs[s].pc = "done"

LongestUpdateUserDone ==
  \E s \in Slots :
    LET p == procs[s] IN
    /\ p.op = "updateUser" /\ p.pc = "done"
    /\ p.sent = 1 /\ p.nexted = 0
    /\ Len(p.list) >= 1 /\ Len(incomingOf(p.req)) >= 1
    /\ p.calls = StoreCallBound(p)

(* C21: the reassigned counter of an UpdateTask is non-zero only when the  *)
(* Task's assignedUser changed from one non-empty User id to a different   *)
(* non-empty User id; assigning a Task that had no assignedUser reports    *)
(* reassigned = 0.                                                         *)
ReassignedMeansChangedOwner ==
  last.op = "updateTask" /\ last.status = 200 /\ last.counters.reassigned # 0
    => /\ last.locals.oldUserId # Unassigned
       /\ last.locals.newUserId # Unassigned
       /\ last.locals.newUserId # last.locals.oldUserId

(* C22: updateTask of part_000 mutates nothing when it rejects: when the   *)
(* request's assignedUser resolves to no User, or its assignedUserName is  *)
(* not the resolved User's name, the validation error is returned with the *)
(* User store and the Task store as they were; the User the Task is        *)
(* assigned to still lists it.                                             *)
Part000RejectMutatesNothing ==
  [][last'.op = "part000.updateTask" /\ last'.status = 400
       => users' = users /\ tasks' = tasks]_vars

(* C23: after every operation, every id in a stored User's pendingTasks   *)
(* is the id of a Task in the Task store; after a successful DeleteTask(t) *)
(* no User's pendingTasks contains t.                                      *)
PendingTasksExist ==
  \A u \in DOMAIN users : PendingSet(users[u]) \subseteq DOMAIN tasks

(* C24: after every operation of a sequence without store failures, every *)
(* stored Task that is not completed and has a non-empty assignedUser u    *)
(* refers to a stored User u whose pendingTasks contains the Task's id     *)
(* exactly once.                                                           *)
IncompleteTaskListedOnce ==
  \A t \in DOMAIN tasks :
    LET u == tasks[t].assignedUser IN
    ~tasks[t].completed /\ u # Unassigned
      => /\ u \in DOMAIN users
         /\ Occurrences(users[u].pendingTasks, t) = 1

ReopenedTaskListedOnce ==
  /\ last.op = "updateTask" /\ last.status = 200
  /\ last.locals.oldCompleted /\ ~last.locals.completed
  /\ last.locals.newUserId = last.locals.oldUserId
  /\ last.counters.addedPending = 1 /\ last.counters.reassigned = 0
  /\ ~tasks[last.id].completed
  /\ tasks[last.id].assignedUser = last.locals.newUserId
  /\ Occurrences(users[last.locals.newUserId].pendingTasks, last.id) = 1

(* the request of p has succeeded after saving User U *)
SucceededSaving(p, U) ==
  /\ p.pc = "done" /\ p.sent = 1 /\ ~p.threw
  /\ \E i \in 1..Len(p.writes) :
       p.writes[i].coll = "users" /\ p.writes[i].id = U

(* U.pendingTasks shows what the request of p did to it *)
Reflected(p, U) ==
  IF p.op = "createTask" THEN Contains(users[U].pendingTasks, p.tid)
  ELSE ~Contains(users[U].pendingTasks, p.tid)

(* C25: when two task-side requests that each read User U, modify          *)
(* U.pendingTasks and save U (two CreateTask, or a CreateTask and a        *)
(* DeleteTask) interleave store call by store call and both succeed, the   *)
(* final U.pendingTasks reflects both modifications.                       *)
NoLostPendingUpdate ==
  \A s, t \in Slots : \A U \in DOMAIN users :
    s # t /\ SucceededSaving(procs[s], U) /\ SucceededSaving(procs[t], U)
      => Reflected(procs[s], U) /\ Reflected(procs[t], U)

====
